---- MODULE Spec2Model ----
(***************************************************************************)
(* The market data client of src/src/services/cryptoService.ts: the       *)
(* CryptoCache (image cache, API cache with expiry, per-coin lookup        *)
(* ledger, blacklist, rate-limit gate), getCryptoImageUrl with its         *)
(* fire-and-forget detail lookup and image probes, fetchWithRetry,         *)
(* fetchTopCoins, fetchCoinData and searchCryptocurrencies.                *)
(*                                                                         *)
(* Time is Date.now() in milliseconds.  Money amounts with decimals are    *)
(* kept in hundredths (57832.45 is 5783245); market caps and volumes,      *)
(* which exceed 32 bits, are pairs <<billions, rest>>.                     *)
(***************************************************************************)
EXTENDS Integers, Sequences, FiniteSets, Bags, TLC

VARIABLES
    now,               \* Date.now()
    ticks,             \* number of clock advances so far (bounds the run)
    ncalls,            \* number of operations the views have called so far
    COINGECKO_API_KEY, \* import.meta.env.VITE_COINGECKO_API_KEY || ''
    MOONPAY_API_KEY,   \* import.meta.env.VITE_MOONPAY_API_KEY || ''
    imageCache,        \* CryptoCache.imageCache: Map coinId -> url
    apiCache,          \* CryptoCache.apiCache: Map key -> {data, timestamp}
    apiCallAttempts,   \* CryptoCache.apiCallAttempts: Map coinId -> time
    rateLimitedUntil,  \* CryptoCache.rateLimitedUntil
    coinBlacklist,     \* CryptoCache.coinBlacklist
    lookups,           \* bag of coin ids whose tryFetchCoinData awaits fetch()
    probes,            \* bag of [id, stage]: Image objects still loading
    calls,             \* the async operations in flight, by slot
    last,              \* the operation that returned last, with its result
    sent,              \* the requests the last step put on the wire
    fetched,           \* history: key -> the last payload a provider delivered
    got404,            \* history: ids whose detail lookup was answered 400/404
    last429,           \* history: the last 429 answered to a detail lookup
    errored,           \* history: id -> number of detail lookups that ended in an error
    compactCryptoWidget, \* window.compactCryptoWidget: the fields of the instance
    container,         \* this.container: undefined, or the DOM the widget rendered
    localStorage,      \* the item 'compactCryptoTransactions'
    timers,            \* the interval timers of the window: ids issued, timers live
    loads,             \* bag of coin ids whose loadCoinData awaits fetch()
    created            \* history: the transaction-created messages handled, oldest first

vars == << now, ticks, ncalls, COINGECKO_API_KEY, MOONPAY_API_KEY, imageCache, apiCache, apiCallAttempts,
           rateLimitedUntil, coinBlacklist, lookups, probes, calls,
           last, sent, fetched, got404, last429, errored,
           compactCryptoWidget, container, localStorage, timers, loads, created >>

(***************************************************************************)
(* Bounds of the model.                                                    *)
(***************************************************************************)
\* SpecTransactions: created messages handled, updated messages handled, clock
\* advances
MaxCreated == 11
MaxUpdated == 1
MaxTransactionTicks == 1
\* SpecWidget: methods called, timer firings
MaxWidgetCalls == 3
MaxWidgetTicks == 1
\* SpecFetch: operations called, clock advances, request chains pending at once
MaxCalls == 2
MaxTicks == 3
MaxInFlight == 1
\* SpecKeys: calls of fetchTopCoins and fetchCoinData, clock advances
MaxKeyCalls == 2
MaxKeyTicks == 1
\* SpecSearch: calls of searchCryptocurrencies and getCryptoImageUrl, clock advances
MaxSearchCalls == 2
MaxSearchTicks == 1
\* SpecFormat: formatPrice calls
MaxFormatCalls == 2
\* SpecRetry: operations called, clock advances while no backoff timer is pending
MaxRetryCalls == 1
MaxRetryTicks == 1
\* SpecEnv: operations called, clock advances
MaxEnvCalls == 2
MaxEnvTicks == 1
\* SpecImage: getCryptoImageUrl calls, clock advances
MaxImageCalls == 2
MaxImageTicks == 1
\* SpecResolve: getCryptoImageUrl calls, clock advances
MaxResolveCalls == 2
MaxResolveTicks == 1
\* SpecOps: operations called, clock advances
MaxOpsCalls == 2
MaxOpsTicks == 1
\* The clock advances by one of these amounts: around the 2 s backoff and the
\* 5 min expiry for the provider chains, around the reset hints and the 1 min
\* cooldown for the image lookups.
FetchSteps == {1000, 299000}
ImageSteps == {1000, 60000}
OpsSteps == {60000}

(***************************************************************************)
(* JavaScript values.                                                      *)
(***************************************************************************)
JUndef == [t |-> "undefined"]
JNull == [t |-> "null"]
Arr(s) == [t |-> "array", v |-> s]
Obj(r) == [t |-> "object", v |-> r]
Truthy(x) == x.t \in {"array", "object"}
IsArray(x) == x.t = "array"
\* A string-valued lookup that found nothing; like undefined it is falsy.
NoString == ""
\* 64-bit quantities as <<billions, rest>>.
Big(hi, lo) == << hi, lo >>
Big0 == Big(0, 0)
\* x.f || 0 on a record whose field may be missing
NumOr0(r, f) == IF f \in DOMAIN r /\ r[f] # 0 THEN r[f] ELSE 0
BigOr0(r, f) == IF f \in DOMAIN r /\ r[f] # Big0 THEN r[f] ELSE Big0

\* Map.set, Map.get, Map.delete on a function with a finite domain
MapSet(m, k, v) == [x \in DOMAIN m \cup {k} |-> IF x = k THEN v ELSE m[x]]
MapDelete(m, k) == [x \in DOMAIN m \ {k} |-> m[x]]
EmptyMap == << >>

\* String.prototype.toLowerCase on the identifiers of the model
ToLower(code) ==
    CASE code = "GODSDOLLAR" -> "godsdollar"
      [] code = "Bitcoin" -> "bitcoin"
      [] OTHER -> code
\* coinId.replace('-', '_'): the first hyphen only
ReplaceHyphen(coinId) ==
    CASE coinId = "pi-network" -> "pi_network"
      [] coinId = "the-open-network" -> "the_open-network"
      [] OTHER -> coinId
\* coinId.charAt(0).toUpperCase()
FirstLetterUpper(coinId) ==
    CASE coinId = "godsdollar" -> "G"
      [] coinId = "litecoin" -> "L"
      [] coinId = "pepe" -> "P"
      [] coinId = "pi-network" -> "P"
      [] coinId = "the-open-network" -> "T"
      [] OTHER -> "?"

(***************************************************************************)
(* Service configuration.                                                  *)
(***************************************************************************)
API_BACKOFF_MS == 2000
MAX_RETRIES == 3
cacheExpiry == 5 * 60 * 1000
apiCooldown == 60 * 1000
SweepPeriod == 60000
DEFAULT_PLACEHOLDER == "/public/placeholder.svg"

(***************************************************************************)
(* class CryptoCache                                                       *)
(***************************************************************************)
\* a cache that stores no url
setImageUrl_drop(ic, coinId, url) == ic

setImageUrl(ic, coinId, url) == MapSet(ic, ToLower(coinId), url)

getImageUrl(ic, coinId) ==
    IF ToLower(coinId) \in DOMAIN ic THEN ic[ToLower(coinId)] ELSE NoString

setApiData(ac, key, data, t) == MapSet(ac, key, [data |-> data, timestamp |-> t])

\* getApiData with the expiry comparison turned around
getApiData_inverted(ac, key, t) ==
    IF key \in DOMAIN ac /\ t - ac[key].timestamp > cacheExpiry
    THEN ac[key].data
    ELSE JUndef

\* getApiData without the expiry comparison
getApiData_noExpiry(ac, key, t) ==
    IF key \in DOMAIN ac THEN ac[key].data ELSE JUndef

getApiData(ac, key, t) ==
    IF key \in DOMAIN ac /\ t - ac[key].timestamp < cacheExpiry
    THEN ac[key].data
    ELSE JUndef

\* isRateLimited that never reports the gate
isRateLimited_never(t, rlu) == FALSE

isRateLimited(t, rlu) == t < rlu

\* setRateLimited that ignores the wait time it is given
setRateLimited_fixed(isLimited, waitTimeSeconds, t) ==
    IF isLimited THEN t + 5 * 60 * 1000 ELSE 0

\* waitTimeSeconds is a number; 0 is falsy
setRateLimited(isLimited, waitTimeSeconds, t) ==
    IF isLimited
    THEN t + (IF waitTimeSeconds # 0 THEN waitTimeSeconds * 1000 ELSE 5 * 60 * 1000)
    ELSE 0

\* addToBlacklist that forgets the identifier
addToBlacklist_forgets(bl, coinId) == bl

addToBlacklist(bl, coinId) == bl \cup {ToLower(coinId)}

isBlacklisted(bl, coinId) == ToLower(coinId) \in bl

\* shouldTryApiCall without the cooldown
shouldTryApiCall_noCooldown(st, coinId) ==
    ~(isRateLimited(st.now, st.rateLimitedUntil)
          \/ isBlacklisted(st.coinBlacklist, ToLower(coinId)))

shouldTryApiCall(st, coinId) ==
    IF isRateLimited(st.now, st.rateLimitedUntil)
          \/ isBlacklisted(st.coinBlacklist, ToLower(coinId))
    THEN FALSE
    ELSE LET id == ToLower(coinId)
         IN \/ id \notin DOMAIN st.apiCallAttempts
            \/ st.apiCallAttempts[id] = 0
            \/ st.now - st.apiCallAttempts[id] > apiCooldown

markApiCallAttempt(att, coinId, t) == MapSet(att, ToLower(coinId), t)

\* a sweep that empties the cache whatever the age of its entries
clearExpired_all(ac, t) == EmptyMap

clearExpired(ac, t) ==
    [k \in {x \in DOMAIN ac : ~(t - ac[x].timestamp > cacheExpiry)} |-> ac[k]]

(***************************************************************************)
(* getCryptoImageUrl.  st carries the state the function reads and writes  *)
(* (now, rateLimitedUntil, key, imageCache, apiCallAttempts,               *)
(* coinBlacklist, lookups, probes, sent); the result is st with the        *)
(* returned string in st.url.                                              *)
(***************************************************************************)
localImageMap ==
    [btc |-> "/src/images/crypto/bitcoin.png",
     eth |-> "/src/images/crypto/ethereum.png",
     sol |-> "/src/images/crypto/solana.png",
     usdc |-> "/src/images/crypto/usdc.png",
     usdt |-> "/src/images/crypto/tether.png",
     bnb |-> "/src/images/crypto/binance.png",
     xrp |-> "/src/images/crypto/xrp.png",
     ada |-> "/src/images/crypto/cardano.png",
     doge |-> "/src/images/crypto/dogecoin.png",
     dot |-> "/src/images/crypto/polkadot.png",
     link |-> "/src/images/crypto/chainlink.png",
     avax |-> "/src/images/crypto/avalanche.png",
     shib |-> "/src/images/crypto/shiba.png",
     bitcoin |-> "/src/images/crypto/bitcoin.png",
     ethereum |-> "/src/images/crypto/ethereum.png",
     solana |-> "/src/images/crypto/solana.png"]
    @@ ("usd-coin" :> "/src/images/crypto/usdc.png")
    @@ [tether |-> "/src/images/crypto/tether.png",
        binancecoin |-> "/src/images/crypto/binance.png",
        ripple |-> "/src/images/crypto/xrp.png",
        cardano |-> "/src/images/crypto/cardano.png",
        dogecoin |-> "/src/images/crypto/dogecoin.png",
        polkadot |-> "/src/images/crypto/polkadot.png",
        chainlink |-> "/src/images/crypto/chainlink.png"]
    @@ ("avalanche-2" :> "/src/images/crypto/avalanche.png")
    @@ ("shiba-inu" :> "/src/images/crypto/shiba.png")
    @@ ("wrapped-bitcoin" :> "/src/images/crypto/bitcoin.png")
    @@ ("staked-ether" :> "/src/images/crypto/ethereum.png")
    @@ ("wrapped-steth" :> "/src/images/crypto/ethereum.png")

\* coin id -> the "<id>/small/<name>" part of its CDN url
knownImageMapping ==
    [bitcoin |-> "1/small/bitcoin",
     ethereum |-> "279/small/ethereum",
     tether |-> "325/small/tether",
     binancecoin |-> "825/small/binance-coin",
     ripple |-> "44/small/xrp",
     solana |-> "16116/small/solana",
     cardano |-> "2010/small/cardano",
     dogecoin |-> "5/small/dogecoin",
     tron |-> "1958/small/tron",
     polkadot |-> "6636/small/polkadot",
     chainlink |-> "1975/small/chainlink",
     uniswap |-> "12504/small/uniswap",
     stellar |-> "512/small/stellar"]
    @@ ("staked-ether" :> "8085/small/staked-ether")
    @@ ("wrapped-bitcoin" :> "3717/small/wrapped-bitcoin")
    @@ ("shiba-inu" :> "5994/small/shiba-inu")
    @@ ("avalanche-2" :> "12559/small/avalanche-2")

problemCoins ==
    {"fartcoin", "zerebro", "grass", "pepe", "official-trump", "dogwifcoin", "deep",
     "pi-network", "the-open-network", "leo-token", "mantra-dao", "zora", "sui",
     "ondo-finance"}

CdnBase == "https://assets.coingecko.com/coins/images/"
Pattern1Url(coinId) == CdnBase \o "1000/small/" \o coinId \o ".png?1684385264"
Pattern2Url(coinId) == CdnBase \o "search_fallback/" \o coinId \o ".png"
Pattern3Url(coinId) == CdnBase \o "search_fallback/" \o ReplaceHyphen(coinId) \o ".png"
SvgPlaceholder(coinId) == "data:image/svg+xml," \o FirstLetterUpper(coinId)

ImageRequest(coinId) == [to |-> "primary", op |-> "image", id |-> coinId]

\* lines 343-363: tryFetchCoinData up to its first await
tryFetchCoinDataStart(st, coinId) ==
    IF coinId \in problemCoins
    THEN [st EXCEPT !.coinBlacklist = addToBlacklist(@, coinId)]
    ELSE [st EXCEPT !.apiCallAttempts = markApiCallAttempt(@, coinId, st.now),
                    !.lookups = @ (+) SetToBag({coinId}),
                    !.sent = @ \cup {ImageRequest(coinId)}]

\* lines 326-459: the path of an identifier no table knows
getUnknownImageUrl(st, coinId) ==
    LET s1 == IF st.key # "" /\ shouldTryApiCall(st, coinId)
                 /\ ~isRateLimited(st.now, st.rateLimitedUntil)
              THEN tryFetchCoinDataStart(st, coinId)
              ELSE st
        url == Pattern1Url(coinId)
    IN  [s1 EXCEPT !.imageCache = setImageUrl(@, coinId, url),
                   !.probes = @ (+) SetToBag({[id |-> coinId, stage |-> "img"]}),
                   !.url = url]

\* getCryptoImageUrl consulting the CDN mapping before the local table
getCryptoImageUrl_knownFirst(st, code) ==
    IF code = ""
    THEN [st EXCEPT !.url = DEFAULT_PLACEHOLDER]
    ELSE LET coinId == ToLower(code)
             cachedUrl == getImageUrl(st.imageCache, coinId)
         IN  IF cachedUrl # NoString
             THEN [st EXCEPT !.url = cachedUrl]
             ELSE IF coinId = "godd"
             THEN [st EXCEPT !.imageCache = setImageUrl(@, coinId, "/src/images/main.png"),
                             !.url = "/src/images/main.png"]
             ELSE IF coinId \in DOMAIN knownImageMapping
             THEN LET url == CdnBase \o knownImageMapping[coinId] \o ".png"
                  IN  [st EXCEPT !.imageCache = setImageUrl(@, coinId, url), !.url = url]
             ELSE IF coinId \in DOMAIN localImageMap
             THEN [st EXCEPT !.imageCache = setImageUrl(@, coinId, localImageMap[coinId]),
                             !.url = localImageMap[coinId]]
             ELSE getUnknownImageUrl(st, coinId)

getCryptoImageUrl(st, code) ==
    IF code = ""
    THEN [st EXCEPT !.url = DEFAULT_PLACEHOLDER]
    ELSE LET coinId == ToLower(code)
             cachedUrl == getImageUrl(st.imageCache, coinId)
         IN  IF cachedUrl # NoString
             THEN [st EXCEPT !.url = cachedUrl]
             ELSE IF coinId = "godd"
             THEN [st EXCEPT !.imageCache = setImageUrl(@, coinId, "/src/images/main.png"),
                             !.url = "/src/images/main.png"]
             ELSE IF coinId \in DOMAIN localImageMap
             THEN [st EXCEPT !.imageCache = setImageUrl(@, coinId, localImageMap[coinId]),
                             !.url = localImageMap[coinId]]
             ELSE IF coinId \in DOMAIN knownImageMapping
             THEN LET url == CdnBase \o knownImageMapping[coinId] \o ".png"
                  IN  [st EXCEPT !.imageCache = setImageUrl(@, coinId, url), !.url = url]
             ELSE getUnknownImageUrl(st, coinId)

(***************************************************************************)
(* Provider payloads of the model and the mapping to CoinData.            *)
(***************************************************************************)
Currencies == {"usd"}
Limits == {5}
CoinIds == {"bitcoin", "tron"}
Queries == {"", " ", "god"}
ImageCodes == {"", "bitcoin", "godsdollar", "GODSDOLLAR", "litecoin"}
\* identifiers and currencies that hold the separator of the cache keys
KeyCoinIds == {"wrapped", "wrapped_btc"}
KeyCurrencies == {"usd", "btc_usd"}
\* a view resolving the image of a coin that a search result also holds
SearchCodes == {"godsdollar"}
\* one code per branch of getCryptoImageUrl: none, the project coin, both tables,
\* the CDN mapping only, no table
ResolveCodes == {"", "godd", "bitcoin", "Bitcoin", "tron", "godsdollar"}

\* a trim that removes nothing
Trim_none(query) == query

\* String.prototype.trim on the queries of the model
Trim(query) == IF query = " " THEN "" ELSE query

\* rows of GET /coins/markets (CoinGeckoMarketData)
MarketRow(id, symbol, name, price, rank) ==
    [id |-> id, symbol |-> symbol, name |-> name, current_price |-> price,
     price_change_percentage_24h |-> 150, market_cap |-> Big(0, 1000 - rank),
     market_cap_rank |-> rank, total_volume |-> Big(0, 50), high_24h |-> price + 100,
     low_24h |-> price - 100]
MarketsPayloads ==
    {Arr(<< MarketRow("bitcoin", "btc", "Bitcoin", 6000000, 1),
            MarketRow("godsdollar", "godd", "Gods Dollar", 275, 2) >>),
     Obj([error |-> "unexpected"])}

\* body of GET /coins/{id} (CoinGeckoDetailResponse)
DetailFull(id, price) ==
    [id |-> id, symbol |-> id, name |-> id, market_cap_rank |-> 1,
     market_data |->
         [current_price |-> [usd |-> price],
          price_change_percentage_24h |-> 150,
          market_cap |-> [usd |-> Big(0, 900)],
          total_volume |-> [usd |-> Big(0, 50)],
          high_24h |-> [usd |-> price + 100],
          low_24h |-> [usd |-> price - 100]]]
DetailNoMarket(id) == [id |-> id, symbol |-> id, name |-> id]
DetailBadMarket(id) == [id |-> id, symbol |-> id, name |-> id, market_data |-> EmptyMap]
DetailPayloads(id) ==
    {Obj(DetailFull(id, 6000000)), Obj(DetailNoMarket(id)), Obj(DetailBadMarket(id)), JNull}

\* MoonPayCurrency records; a sparse record lacks its numeric fields
MoonPayFull(code, name, price) ==
    [code |-> code, name |-> name, price |-> price, change24Hour |-> 120,
     marketCap |-> Big(0, 800), rank |-> 1, volume24Hour |-> Big(0, 40)]
MoonPaySparse(code, name) == [code |-> code, name |-> name]
MoonPayListPayloads ==
    {Arr(<< MoonPayFull("btc", "Bitcoin", 5900000), MoonPaySparse("eth", "Ethereum") >>),
     \* the request of lines 647-657 asks for no order
     Arr(<< MoonPaySparse("eth", "Ethereum"), MoonPayFull("btc", "Bitcoin", 5900000) >>),
     Arr(<< >>),
     JNull}
MoonPayDetailPayloads ==
    {Obj(MoonPayFull("btc", "Bitcoin", 5900000)), Obj(MoonPaySparse("btc", "Bitcoin")), JNull}

\* body of GET /search
SearchRow(id) == [id |-> id, name |-> id, symbol |-> id]
\* a result longer than the 15 rows of line 965, of coins with a local image
LongSearchIds ==
    << "btc", "eth", "sol", "usdc", "usdt", "bnb", "xrp", "ada", "doge", "dot", "link",
       "avax", "bitcoin", "ethereum", "solana", "tether", "cardano" >>
SearchPayloads ==
    {Obj([coins |-> << SearchRow("godsdollar"), SearchRow("bitcoin") >>]),
     Obj([coins |-> [i \in DOMAIN LongSearchIds |-> SearchRow(LongSearchIds[i])]]),
     Obj([status |-> "no coins"]),
     JNull}

\* what a request can end with; a timeout (the 5 s of lines 623 and 656) reaches the
\* code as an error without a response, and when it strikes is left open
Ok(data) == [kind |-> "ok", data |-> data]
Http(status) == [kind |-> "http", status |-> status]
Failures == {Http(429), Http(404), Http(500), [kind |-> "network"], [kind |-> "timeout"]}

\* x-ratelimit-reset of a 429: absent, or a decimal string
ResetHeaders ==
    {[present |-> FALSE]} \cup {[present |-> TRUE, value |-> v] : v \in {"", "0", "1", "2"}}
\* parseInt on the decimal strings of the model
parseInt(text) ==
    CASE text = "0" -> 0 [] text = "1" -> 1 [] text = "2" -> 2
      [] text = "1000" -> 1000 [] text = "60000" -> 60000 [] text = "300000" -> 300000
      [] OTHER -> 0

\* lines 626-638
MarketToCoin(coin, image) ==
    [id |-> coin.id, symbol |-> coin.symbol, name |-> coin.name, image |-> image,
     current_price |-> coin.current_price,
     price_change_percentage_24h |-> coin.price_change_percentage_24h,
     market_cap |-> coin.market_cap, market_cap_rank |-> coin.market_cap_rank,
     total_volume |-> coin.total_volume, high_24h |-> coin.high_24h,
     low_24h |-> coin.low_24h]

\* lines 660-670 and 800-810
\* a mapping that copies the numeric fields the record has and defaults none
MoonPayToCoin_noDefault(coin, image) ==
    [id |-> coin.code, symbol |-> coin.code, name |-> coin.name, image |-> image]
        @@ (IF "price" \in DOMAIN coin THEN [current_price |-> coin.price] ELSE << >>)
        @@ (IF "change24Hour" \in DOMAIN coin
            THEN [price_change_percentage_24h |-> coin.change24Hour]
            ELSE << >>)
        @@ (IF "marketCap" \in DOMAIN coin THEN [market_cap |-> coin.marketCap] ELSE << >>)
        @@ (IF "rank" \in DOMAIN coin THEN [market_cap_rank |-> coin.rank] ELSE << >>)
        @@ (IF "volume24Hour" \in DOMAIN coin
            THEN [total_volume |-> coin.volume24Hour]
            ELSE << >>)

MoonPayToCoin(coin, image) ==
    [id |-> coin.code, symbol |-> coin.code, name |-> coin.name, image |-> image,
     current_price |-> NumOr0(coin, "price"),
     price_change_percentage_24h |-> NumOr0(coin, "change24Hour"),
     market_cap |-> BigOr0(coin, "marketCap"),
     market_cap_rank |-> NumOr0(coin, "rank"),
     total_volume |-> BigOr0(coin, "volume24Hour")]

\* data.market_data?.f[currency] || 0, given that market_data has f or is absent
MarketNum(data, f, currency) ==
    IF "market_data" \in DOMAIN data THEN NumOr0(data.market_data[f], currency) ELSE 0
MarketBig(data, f, currency) ==
    IF "market_data" \in DOMAIN data THEN BigOr0(data.market_data[f], currency) ELSE Big0

\* lines 770-782
DetailToCoin(data, image, currency) ==
    [id |-> data.id, symbol |-> data.symbol, name |-> data.name, image |-> image,
     current_price |-> MarketNum(data, "current_price", currency),
     price_change_percentage_24h |->
         IF "market_data" \in DOMAIN data
         THEN NumOr0(data.market_data, "price_change_percentage_24h")
         ELSE 0,
     market_cap |-> MarketBig(data, "market_cap", currency),
     market_cap_rank |-> NumOr0(data, "market_cap_rank"),
     total_volume |-> MarketBig(data, "total_volume", currency),
     high_24h |-> MarketNum(data, "high_24h", currency),
     low_24h |-> MarketNum(data, "low_24h", currency)]

\* the literals of getFallbackCoins, without the image each gets on the way out
FallbackRows ==
    << [id |-> "bitcoin", symbol |-> "btc", name |-> "Bitcoin", current_price |-> 5783245,
        price_change_percentage_24h |-> 234, market_cap |-> Big(1134, 578945623),
        market_cap_rank |-> 1, total_volume |-> Big(32, 456789012), high_24h |-> 5895025,
        low_24h |-> 5678412],
       [id |-> "ethereum", symbol |-> "eth", name |-> "Ethereum", current_price |-> 294783,
        price_change_percentage_24h |-> 156, market_cap |-> Big(354, 789012345),
        market_cap_rank |-> 2, total_volume |-> Big(15, 678901234), high_24h |-> 302575,
        low_24h |-> 289562],
       [id |-> "solana", symbol |-> "sol", name |-> "Solana", current_price |-> 14356,
        price_change_percentage_24h |-> 345, market_cap |-> Big(56, 789012345),
        market_cap_rank |-> 4, total_volume |-> Big(4, 567890123), high_24h |-> 14892,
        low_24h |-> 13945],
       [id |-> "cardano", symbol |-> "ada", name |-> "Cardano", current_price |-> 48,
        price_change_percentage_24h |-> -123, market_cap |-> Big(16, 789012345),
        market_cap_rank |-> 5, total_volume |-> Big(0, 789012345), high_24h |-> 51,
        low_24h |-> 47],
       [id |-> "godsdollar", symbol |-> "godd", name |-> "Gods Dollar", current_price |-> 275,
        price_change_percentage_24h |-> 567, market_cap |-> Big(12, 345678901),
        market_cap_rank |-> 6, total_volume |-> Big(0, 123456789), high_24h |-> 291,
        low_24h |-> 265] >>

\* rows.map(row => toCoin(row, getCryptoImageUrl(idOf(row)))): [st, coins]
RECURSIVE MapMarkets(_, _)
MapMarkets(st, rows) ==
    IF rows = << >>
    THEN [st |-> st, coins |-> << >>]
    ELSE LET s1 == getCryptoImageUrl(st, Head(rows).id)
             rest == MapMarkets(s1, Tail(rows))
         IN  [st |-> rest.st, coins |-> << MarketToCoin(Head(rows), s1.url) >> \o rest.coins]

RECURSIVE MapMoonPay(_, _)
MapMoonPay(st, rows) ==
    IF rows = << >>
    THEN [st |-> st, coins |-> << >>]
    ELSE LET s1 == getCryptoImageUrl(st, Head(rows).code)
             rest == MapMoonPay(s1, Tail(rows))
         IN  [st |-> rest.st, coins |-> << MoonPayToCoin(Head(rows), s1.url) >> \o rest.coins]

\* lines 965-969: thumb and small each call getCryptoImageUrl; done[i] is the state
\* and the records after the first i rows
MapSearch(st, rows) ==
    LET done[i \in 0..Len(rows)] ==
            IF i = 0
            THEN [coins |-> << >>, st |-> st]
            ELSE LET before == done[i - 1]
                     s1 == getCryptoImageUrl(before.st, rows[i].id)
                     s2 == getCryptoImageUrl(s1, rows[i].id)
                     coin == [id |-> rows[i].id, name |-> rows[i].name,
                              symbol |-> rows[i].symbol, thumb |-> s1.url, small |-> s2.url]
                 IN  [coins |-> Append(before.coins, coin), st |-> s2]
    IN  done[Len(rows)]

\* a slice that keeps every row
Slice_all(s, n) == s

\* Array.prototype.slice(0, n)
Slice(s, n) == SubSeq(s, 1, IF Len(s) < n THEN Len(s) ELSE n)
SearchCap == 15

\* getFallbackCoins without its last literal
getFallbackCoins_short(st) == MapMarkets(st, SubSeq(FallbackRows, 1, 4))

\* lines 830-898: [st, coins]
getFallbackCoins(st) == MapMarkets(st, FallbackRows)

\* getFallbackCoins().find(coin => coin.id === coinId) || null
FindFallback(coins, coinId) ==
    IF \E i \in 1 .. Len(coins) : coins[i].id = coinId
    THEN Obj(coins[CHOOSE i \in 1 .. Len(coins) :
                      /\ coins[i].id = coinId
                      /\ \A j \in 1 .. (i - 1) : coins[j].id # coinId])
    ELSE JNull

(***************************************************************************)
(* State machine.                                                          *)
(***************************************************************************)
\* Date.now() when the module is loaded: some positive time
PageLoad == 1 * 1000
NoCall == [op |-> "none"]
No429 == [seen |-> FALSE]

(***************************************************************************)
(* compact-crypto.js: class CompactCryptoWidget.  The page holds one       *)
(* instance, window.compactCryptoWidget (line 1053).                       *)
(***************************************************************************)
\* line 901: the length the list of recent transactions is cut to
RecentCap == 10
\* setInterval returns an integer greater than zero, so no timer id is falsy;
\* 0 stands for the null of this.activeInterval
NoInterval == 0
\* nothing rendered in the coin header yet ("Loading...", lines 76-85)
NothingShown == [coin |-> "", currency |-> ""]
\* createWidgetDOM, lines 68-125: the overlay without the class 'active'
FreshDOM == [t |-> "element", loading |-> FALSE, shown |-> NothingShown]

\* lines 8-25 and 1053; no item in the storage, no timer, no request
WidgetConstructed ==
    /\ compactCryptoWidget = [currentCoin |-> "bitcoin", currentCurrency |-> "usd",
                              updateInterval |-> 60000, activeInterval |-> NoInterval]
    /\ container = JUndef
    /\ localStorage = JNull
    /\ timers = [issued |-> 0, live |-> {}]
    /\ loads = EmptyBag
    /\ created = << >>

\* the state after the module is loaded, but for the two keys of the environment
Loaded ==
    /\ now = PageLoad
    /\ ticks = 0
    /\ ncalls = 0
    /\ imageCache = EmptyMap
    /\ apiCache = EmptyMap
    /\ apiCallAttempts = EmptyMap
    /\ rateLimitedUntil = 0
    /\ coinBlacklist = {}
    /\ lookups = EmptyBag
    /\ probes = EmptyBag
    /\ calls = EmptyMap
    /\ last = NoCall
    /\ sent = {}
    /\ fetched = EmptyMap
    /\ got404 = {}
    /\ last429 = No429
    /\ errored = EmptyMap
    /\ WidgetConstructed

\* an environment with the key of the secondary provider, with or without the
\* key of the primary provider
Init ==
    /\ Loaded
    /\ COINGECKO_API_KEY \in {"", "CG-key"}
    /\ MOONPAY_API_KEY = "MP-key"

\* any environment: each key configured or not
InitEnv ==
    /\ Loaded
    /\ COINGECKO_API_KEY \in {"", "CG-key"}
    /\ MOONPAY_API_KEY \in {"", "MP-key"}

\* the part of the state getCryptoImageUrl works on
ImgState ==
    [now |-> now, rateLimitedUntil |-> rateLimitedUntil, key |-> COINGECKO_API_KEY,
     imageCache |-> imageCache, apiCallAttempts |-> apiCallAttempts,
     coinBlacklist |-> coinBlacklist, lookups |-> lookups, probes |-> probes,
     sent |-> {}, url |-> NoString]

Commit(st) ==
    /\ imageCache' = st.imageCache
    /\ apiCallAttempts' = st.apiCallAttempts
    /\ coinBlacklist' = st.coinBlacklist
    /\ lookups' = st.lookups
    /\ probes' = st.probes
    /\ sent' = st.sent

ImgUnchanged == UNCHANGED << imageCache, apiCallAttempts, coinBlacklist, lookups, probes >>
WidgetUnchanged ==
    UNCHANGED << compactCryptoWidget, container, localStorage, timers, loads, created >>
ClockUnchanged ==
    /\ UNCHANGED << now, ticks, COINGECKO_API_KEY, MOONPAY_API_KEY >>
    /\ WidgetUnchanged
\* a view calls an operation
Called == ncalls' = ncalls + 1
NotCalled == UNCHANGED ncalls
HistoryUnchanged == UNCHANGED << got404, last429, errored >>

\* the k-th operation called runs in slot k
NewSlot == ncalls + 1
\* the number of request chains pending
InFlight == Cardinality(DOMAIN calls)

PrimaryRequest(op, id) == [to |-> "primary", op |-> op, id |-> id]
\* lines 647-657 and 792-796: the Authorization header is built from the key, set or not
SecondaryRequest(op, id) ==
    [to |-> "secondary", op |-> op, id |-> id,
     Authorization |-> "Api-Key " \o MOONPAY_API_KEY]

NewCall(op, a, cacheKey) ==
    [pc |-> "primary", op |-> op, a |-> a, cacheKey |-> cacheKey, retries |-> 0,
     wake |-> 0, nPrimary |-> 1, n429 |-> 0, nSecondary |-> 0,
     primaryFailed |-> FALSE, failure |-> "none",
     fresh |-> cacheKey \in DOMAIN fetched
                  /\ now - fetched[cacheKey].timestamp < 5 * 60 * 1000,
     staleMiss |-> cacheKey \in DOMAIN apiCache
                      /\ now - apiCache[cacheKey].timestamp > 5 * 60 * 1000]

\* the record of a returned call
Returned(c, outcome, result, secondary, reqs) ==
    [op |-> c.op, a |-> c.a, outcome |-> outcome, result |-> result, hit |-> FALSE,
     hitAge |-> 0, fresh |-> c.fresh, expected |-> JUndef, nPrimary |-> c.nPrimary,
     nSecondary |-> c.nSecondary, primaryFailed |-> c.primaryFailed,
     failure |-> c.failure, secondary |-> secondary, reqs |-> reqs]

\* lines 600-606 and 750-756: the call is served from the cache
ReturnCached(op, a, cacheKey, cachedData) ==
    /\ last' = [op |-> op, a |-> a, outcome |-> "value", result |-> cachedData,
                hit |-> TRUE, hitAge |-> now - apiCache[cacheKey].timestamp,
                fresh |-> cacheKey \in DOMAIN fetched
                             /\ now - fetched[cacheKey].timestamp < 5 * 60 * 1000,
                expected |-> IF cacheKey \in DOMAIN fetched
                             THEN fetched[cacheKey].data
                             ELSE JUndef,
                nPrimary |-> 0, nSecondary |-> 0, primaryFailed |-> FALSE,
                failure |-> "none", secondary |-> "none", reqs |-> {}]
    /\ sent' = {}
    /\ UNCHANGED << calls, apiCache, fetched, rateLimitedUntil >>
    /\ ImgUnchanged /\ ClockUnchanged /\ HistoryUnchanged
    /\ Called

\* a cache miss: the first request to the primary provider leaves
StartPrimary(op, a, cacheKey, id) ==
    /\ calls' = MapSet(calls, NewSlot, NewCall(op, a, cacheKey))
    /\ sent' = {PrimaryRequest(op, id)}
    /\ UNCHANGED << last, apiCache, fetched, rateLimitedUntil >>
    /\ ImgUnchanged /\ ClockUnchanged /\ HistoryUnchanged
    /\ Called

TopCoinsKey(currency, limit) == "top_coins_" \o currency \o "_" \o ToString(limit)
CoinKey(coinId, currency) == "coin_" \o coinId \o "_" \o currency

\* lines 598-624
FetchTopCoins(currency, limit) ==
    /\ LET cacheKey == TopCoinsKey(currency, limit)
           cachedData == getApiData(apiCache, cacheKey, now)
           a == [currency |-> currency, limit |-> limit]
       IN  IF Truthy(cachedData)
           THEN ReturnCached("fetchTopCoins", a, cacheKey, cachedData)
           ELSE StartPrimary("fetchTopCoins", a, cacheKey, "markets")

\* lines 748-768
FetchCoinData(coinId, currency) ==
    /\ LET cacheKey == CoinKey(coinId, currency)
           cachedData == getApiData(apiCache, cacheKey, now)
           a == [coinId |-> coinId, currency |-> currency]
       IN  IF Truthy(cachedData)
           THEN ReturnCached("fetchCoinData", a, cacheKey, cachedData)
           ELSE StartPrimary("fetchCoinData", a, cacheKey, coinId)

\* the catch of fetchWithRetry retrying whatever the error is
fetchWithRetryCatch_anyError(r, retries) ==
    IF retries < MAX_RETRIES THEN "retry" ELSE "throw"

\* the catch of fetchWithRetry retrying a 429 however often it has retried
fetchWithRetryCatch_noLimit(r, retries) ==
    IF r.kind = "http" /\ r.status = 429 THEN "retry" ELSE "throw"

\* lines 584-594: what the catch of fetchWithRetry does with a failed request
fetchWithRetryCatch(r, retries) ==
    IF r.kind = "http" /\ r.status = 429 /\ retries < MAX_RETRIES THEN "retry" ELSE "throw"

Is429(r) == r.kind = "http" /\ r.status = 429

\* fetchWithRetry throwing although the request succeeded
fetchWithRetryStep_throws(r, retries) ==
    IF r.kind = "ok" THEN "throw" ELSE fetchWithRetryCatch(r, retries)

\* lines 569-594: fetchWithRetry on the answer r to its request
fetchWithRetryStep(r, retries) ==
    IF r.kind = "ok" THEN "return" ELSE fetchWithRetryCatch(r, retries)

\* the class of a failed attempt: a 429, another error, or a payload the mapping rejects
FailureName(r) == IF r.kind = "ok" THEN "payload" ELSE IF Is429(r) THEN "429" ELSE "error"

\* the request failed and fetchWithRetry waits API_BACKOFF_MS before it retries
StartBackoff(s, r) ==
    /\ calls' = [calls EXCEPT ![s] = [@ EXCEPT !.pc = "backoff",
                                               !.wake = now + API_BACKOFF_MS,
                                               !.n429 = @ + (IF Is429(r) THEN 1 ELSE 0),
                                               !.failure = FailureName(r)]]
    /\ sent' = {}
    /\ UNCHANGED << last, apiCache, fetched, rateLimitedUntil >>
    /\ ImgUnchanged /\ ClockUnchanged /\ HistoryUnchanged
    /\ NotCalled

\* lines 589-590: the timer fired, fetchWithRetry(url, options, retries + 1)
RetryPrimary(s) ==
    /\ s \in DOMAIN calls
    /\ calls[s].pc = "backoff"
    /\ now >= calls[s].wake
    /\ calls' = [calls EXCEPT ![s] = [@ EXCEPT !.pc = "primary", !.retries = @ + 1,
                                               !.nPrimary = @ + 1]]
    /\ sent' = {PrimaryRequest(calls[s].op,
                               IF calls[s].op = "fetchTopCoins" THEN "markets"
                               ELSE calls[s].a.coinId)}
    /\ UNCHANGED << last, apiCache, fetched, rateLimitedUntil >>
    /\ ImgUnchanged /\ ClockUnchanged /\ HistoryUnchanged
    /\ NotCalled

\* the call as it moves on to the secondary provider; failed tells whether the
\* primary attempt did fail (an error, or a payload the mapping cannot use)
ToSecondary(c, r, failed) ==
    [c EXCEPT !.pc = "secondary", !.primaryFailed = failed, !.nSecondary = @ + 1,
              !.n429 = @ + (IF Is429(r) THEN 1 ELSE 0), !.failure = FailureName(r)]

\* a call that never had a cache key or a provider chain
Plain(op, a) ==
    [op |-> op, a |-> a, fresh |-> FALSE, nPrimary |-> 0, nSecondary |-> 0,
     primaryFailed |-> FALSE, failure |-> "none"]

\* lines 640-642, 672-674, 784-786, 812-814: cache the result and return it
CacheAndReturn(s, c, st, data, secondary) ==
    /\ Commit(st)
    /\ apiCache' = setApiData(apiCache, c.cacheKey, data, now)
    /\ fetched' = MapSet(fetched, c.cacheKey,
                          [data |-> data, timestamp |-> now, op |-> c.op, a |-> c.a,
                           from |-> secondary])
    /\ calls' = MapDelete(calls, s)
    /\ last' = Returned(c, "value", data, secondary, st.sent)
    /\ UNCHANGED rateLimitedUntil
    /\ ClockUnchanged /\ HistoryUnchanged
    /\ NotCalled

\* a call that caches whatever it returns
Finish_caches(s, c, st, outcome, result, secondary) ==
    CacheAndReturn(s, c, st, result, secondary)

\* the call ends without a cache write
Finish(s, c, st, outcome, result, secondary) ==
    /\ Commit(st)
    /\ calls' = MapDelete(calls, s)
    /\ last' = Returned(c, outcome, result, secondary, st.sent)
    /\ UNCHANGED << apiCache, fetched, rateLimitedUntil >>
    /\ ClockUnchanged /\ HistoryUnchanged
    /\ NotCalled

\* lines 644-657 and 788-796: the inner catch sends the MoonPay request
SendSecondary(s, c2, st, op, id) ==
    /\ Commit([st EXCEPT !.sent = @ \cup {SecondaryRequest(op, id)}])
    /\ calls' = [calls EXCEPT ![s] = c2]
    /\ UNCHANGED << last, apiCache, fetched, rateLimitedUntil >>
    /\ ClockUnchanged /\ HistoryUnchanged
    /\ NotCalled

\* the outer catch of fetchTopCoins throwing the error on
TopCoinsCatch_rethrow(st) == [st |-> st, outcome |-> "throw", result |-> JUndef]

\* lines 676-679: the outer catch of fetchTopCoins
TopCoinsCatch(st) ==
    LET fb == getFallbackCoins(st)
    IN  [st |-> fb.st, outcome |-> "value", result |-> Arr(fb.coins)]

\* lines 820-826: the outer catch of fetchCoinData
CoinDataCatch(st, coinId) ==
    LET fb == getFallbackCoins(st)
    IN  [st |-> fb.st, outcome |-> "value", result |-> FindFallback(fb.coins, coinId)]

\* lines 973-976: the catch of searchCryptocurrencies
SearchCatch(st) == [st |-> st, outcome |-> "value", result |-> Arr(<< >>)]

\* lines 621-657: the answer to GET /coins/markets
TopPrimaryResponse(s, r) ==
    /\ s \in DOMAIN calls
    /\ calls[s].pc = "primary" /\ calls[s].op = "fetchTopCoins"
    /\ LET c == calls[s]
           step == fetchWithRetryStep(r, c.retries)
           failed == r.kind # "ok" \/ ~IsArray(r.data)
       IN  IF step = "return" /\ IsArray(r.data)
           THEN LET m == MapMarkets(ImgState, r.data.v)
                IN  CacheAndReturn(s, c, m.st, Arr(m.coins), "none")
           ELSE IF step = "retry"
           THEN StartBackoff(s, r)
           ELSE SendSecondary(s, ToSecondary(c, r, failed), ImgState, "currencies", "list")

\* lines 648-679: the answer to GET /currencies
TopSecondaryResponse(s, r) ==
    /\ s \in DOMAIN calls
    /\ calls[s].pc = "secondary" /\ calls[s].op = "fetchTopCoins"
    /\ LET c == calls[s]
       IN  IF r.kind = "ok" /\ IsArray(r.data)
           THEN LET m == MapMoonPay(ImgState, r.data.v)
                IN  CacheAndReturn(s, c, m.st, Arr(m.coins), "quote")
           ELSE LET e == TopCoinsCatch(ImgState)
                IN  Finish(s, c, e.st, e.outcome, e.result, "failed")

\* market_data is there but lacks current_price: market_data.current_price[currency] throws
BadMarket(data) ==
    "market_data" \in DOMAIN data /\ "current_price" \notin DOMAIN data.market_data

\* lines 760-796: the answer to GET /coins/{id}
CoinPrimaryResponse(s, r) ==
    /\ s \in DOMAIN calls
    /\ calls[s].pc = "primary" /\ calls[s].op = "fetchCoinData"
    /\ LET c == calls[s]
           step == fetchWithRetryStep(r, c.retries)
           usable == r.kind = "ok" /\ Truthy(r.data) /\ ~BadMarket(r.data.v)
           \* image: getCryptoImageUrl(data.id) runs before current_price is read
           s1 == IF r.kind = "ok" /\ Truthy(r.data)
                 THEN getCryptoImageUrl(ImgState, r.data.v.id)
                 ELSE ImgState
       IN  IF step = "return" /\ usable
           THEN CacheAndReturn(s, c, s1, Obj(DetailToCoin(r.data.v, s1.url, c.a.currency)),
                               "none")
           ELSE IF step = "retry"
           THEN StartBackoff(s, r)
           ELSE SendSecondary(s, ToSecondary(c, r, ~usable), s1, "currency", c.a.coinId)

\* lines 792-826: the answer to GET /currencies/{id}
CoinSecondaryResponse(s, r) ==
    /\ s \in DOMAIN calls
    /\ calls[s].pc = "secondary" /\ calls[s].op = "fetchCoinData"
    /\ LET c == calls[s]
       IN  IF r.kind = "ok" /\ Truthy(r.data)
           THEN LET s1 == getCryptoImageUrl(ImgState, r.data.v.code)
                IN  CacheAndReturn(s, c, s1, Obj(MoonPayToCoin(r.data.v, s1.url)), "quote")
           ELSE IF r.kind = "ok"
           THEN Finish(s, c, ImgState, "value", JNull, "empty")
           ELSE LET e == CoinDataCatch(ImgState, c.a.coinId)
                IN  Finish(s, c, e.st, e.outcome, e.result, "failed")

\* lines 950-962
SearchCryptocurrencies(query) ==
    /\ IF query = "" \/ Trim(query) = ""
       THEN /\ last' = Returned(Plain("searchCryptocurrencies", [query |-> query]),
                                "value", Arr(<< >>), "none", {})
            /\ sent' = {}
            /\ UNCHANGED calls
       ELSE /\ calls' = MapSet(calls, NewSlot,
                                 [NewCall("searchCryptocurrencies", [query |-> query], "")
                                      EXCEPT !.pc = "search"])
            /\ sent' = {PrimaryRequest("search", query)}
            /\ UNCHANGED last
    /\ UNCHANGED << apiCache, fetched, rateLimitedUntil >>
    /\ ImgUnchanged /\ ClockUnchanged /\ HistoryUnchanged
    /\ Called

\* lines 964-976: the answer to GET /search
SearchResponse(s, r) ==
    /\ s \in DOMAIN calls
    /\ calls[s].pc = "search"
    /\ LET \* the call, with the answer it got on record
           c == [calls[s] EXCEPT !.a = [query |-> calls[s].a.query, response |-> r]]
       IN  IF r.kind = "ok"
           THEN IF Truthy(r.data) /\ "coins" \in DOMAIN r.data.v
                THEN LET m == MapSearch(ImgState, Slice(r.data.v.coins, SearchCap))
                     IN  Finish(s, c, m.st, "value", Arr(m.coins), "none")
                ELSE Finish(s, c, ImgState, "value", Arr(<< >>), "none")
           ELSE LET e == SearchCatch(ImgState)
                IN  Finish(s, c, e.st, e.outcome, e.result, "none")

\* a view calls getCryptoImageUrl(code)
GetCryptoImageUrl(code) ==
    /\ LET st == getCryptoImageUrl(ImgState, code)
       IN  /\ Commit(st)
           /\ last' = Returned(Plain("getCryptoImageUrl",
                                     [code |-> code,
                                      blacklisted |-> isBlacklisted(coinBlacklist, code),
                                      gated |-> isRateLimited(now, rateLimitedUntil),
                                      \* what the call found: the cached url, whether a
                                      \* lookup was attempted within the last minute
                                      cached |-> IF ToLower(code) \in DOMAIN imageCache
                                                 THEN imageCache[ToLower(code)]
                                                 ELSE NoString,
                                      recent |-> /\ ToLower(code) \in DOMAIN apiCallAttempts
                                                 /\ now - apiCallAttempts[ToLower(code)]
                                                        <= 60 * 1000,
                                      \* whether the call created an Image probe
                                      probed |-> st.probes # probes]),
                               "value", [t |-> "string", v |-> st.url], "none", st.sent)
    /\ UNCHANGED << calls, apiCache, fetched, rateLimitedUntil >>
    /\ ClockUnchanged /\ HistoryUnchanged
    /\ Called

(***************************************************************************)
(* The detail lookup started by getCryptoImageUrl, after its await.        *)
(***************************************************************************)
ProviderImage == "https://coin-images.coingecko.com/coins/images/9999/small/coin.png"
ImagePayloads == {Obj([image |-> [small |-> ProviderImage]]), Obj([id |-> "no image"]), JNull}
LookupAnswers ==
    {Ok(d) : d \in ImagePayloads}
        \cup {[kind |-> "http", status |-> 429, reset |-> h] : h \in ResetHeaders}
        \cup {Http(400), Http(404), Http(500), [kind |-> "network"], [kind |-> "badjson"]}

\* lines 369-370: resetTime ? parseInt(resetTime) : 60
waitTime(resetTime) ==
    IF resetTime.present /\ resetTime.value # "" THEN parseInt(resetTime.value) ELSE 60

\* lines 365-401: tryFetchCoinData on the answer r; g holds the fields it may write
tryFetchCoinDataResume(g, coinId, r, t) ==
    IF r.kind = "http" /\ r.status = 429
    THEN [g EXCEPT !.rateLimitedUntil = setRateLimited(TRUE, waitTime(r.reset), t)]
    ELSE IF r.kind = "http" /\ r.status \in {400, 404}
    THEN [g EXCEPT !.coinBlacklist = addToBlacklist(@, coinId)]
    ELSE IF r.kind = "ok"
    THEN IF Truthy(r.data) /\ "image" \in DOMAIN r.data.v /\ "small" \in DOMAIN r.data.v.image
         THEN [g EXCEPT !.imageCache = setImageUrl(@, coinId, r.data.v.image.small)]
         ELSE g
    ELSE [g EXCEPT !.coinBlacklist = addToBlacklist(@, coinId)]

\* the lookup ended in an error: a status other than 429, 400, 404 and 2xx, a
\* request that got no response, a body that is not JSON
LookupErrored(r) ==
    \/ r.kind \in {"network", "badjson"}
    \/ r.kind = "http" /\ r.status \notin {429, 400, 404}
LookupResponse(coinId, r) ==
    /\ BagIn(coinId, lookups)
    /\ LET g == tryFetchCoinDataResume(
                    [rateLimitedUntil |-> rateLimitedUntil, coinBlacklist |-> coinBlacklist,
                     imageCache |-> imageCache], coinId, r, now)
       IN  /\ rateLimitedUntil' = g.rateLimitedUntil
           /\ coinBlacklist' = g.coinBlacklist
           /\ imageCache' = g.imageCache
    /\ lookups' = lookups (-) SetToBag({coinId})
    /\ got404' = IF r.kind = "http" /\ r.status \in {400, 404}
                 THEN got404 \cup {coinId}
                 ELSE got404
    /\ last429' = IF r.kind = "http" /\ r.status = 429
                  THEN [seen |-> TRUE, at |-> now, reset |-> r.reset]
                  ELSE last429
    /\ errored' = IF LookupErrored(r)
                  THEN MapSet(errored, coinId,
                              1 + (IF coinId \in DOMAIN errored THEN errored[coinId] ELSE 0))
                  ELSE errored
    /\ sent' = {}
    /\ UNCHANGED << apiCallAttempts, probes, calls, last, apiCache, fetched >>
    /\ ClockUnchanged
    /\ NotCalled

(***************************************************************************)
(* The image probes: lines 417-457.                                        *)
(***************************************************************************)
\* the onerror chain going from the best guess to pattern 3 at once
NextStage_skip(stage) == "altFallbackImg"

NextStage(stage) == IF stage = "img" THEN "fallbackImg" ELSE "altFallbackImg"

\* onload of the probe p
ProbeLoad(p) ==
    /\ BagIn(p, probes)
    /\ probes' = probes (-) SetToBag({p})
    /\ imageCache' = CASE p.stage = "img" -> imageCache
                       [] p.stage = "fallbackImg" ->
                              setImageUrl(imageCache, p.id, Pattern2Url(p.id))
                       [] p.stage = "altFallbackImg" ->
                              setImageUrl(imageCache, p.id, Pattern3Url(p.id))
    /\ sent' = {}
    /\ UNCHANGED << apiCallAttempts, coinBlacklist, lookups, rateLimitedUntil, calls, last,
                    apiCache, fetched >>
    /\ ClockUnchanged /\ HistoryUnchanged
    /\ NotCalled

\* onerror of the probe p
ProbeError(p) ==
    /\ BagIn(p, probes)
    /\ IF p.stage = "altFallbackImg"
       THEN /\ probes' = probes (-) SetToBag({p})
            /\ imageCache' = setImageUrl(imageCache, p.id, SvgPlaceholder(p.id))
       ELSE /\ probes' = (probes (-) SetToBag({p}))
                             (+) SetToBag({[id |-> p.id, stage |-> NextStage(p.stage)]})
            /\ UNCHANGED imageCache
    /\ sent' = {}
    /\ UNCHANGED << apiCallAttempts, coinBlacklist, lookups, rateLimitedUntil, calls, last,
                    apiCache, fetched >>
    /\ ClockUnchanged /\ HistoryUnchanged
    /\ NotCalled

(***************************************************************************)
(* Time and the periodic sweep (lines 979-982).                            *)
(***************************************************************************)
Tick(d) ==
    /\ now' = now + d
    /\ ticks' = ticks + 1
    /\ sent' = {}
    /\ UNCHANGED << COINGECKO_API_KEY, MOONPAY_API_KEY, calls, last, apiCache, fetched, rateLimitedUntil >>
    /\ ImgUnchanged /\ HistoryUnchanged /\ WidgetUnchanged
    /\ NotCalled

\* The interval timer fires no sooner than one period after the page loaded; how
\* far the event loop delays each firing is left open.
Sweep ==
    /\ now >= PageLoad + SweepPeriod
    /\ apiCache' = clearExpired(apiCache, now)
    /\ sent' = {}
    /\ UNCHANGED << now, ticks, COINGECKO_API_KEY, MOONPAY_API_KEY, calls, last, fetched,
                    rateLimitedUntil >>
    /\ ImgUnchanged /\ HistoryUnchanged /\ WidgetUnchanged
    /\ NotCalled

MarketsAnswers == {Ok(d) : d \in MarketsPayloads} \cup Failures
MoonPayListAnswers == {Ok(d) : d \in MoonPayListPayloads} \cup Failures
DetailAnswers(id) == {Ok(d) : d \in DetailPayloads(id)} \cup Failures
MoonPayDetailAnswers == {Ok(d) : d \in MoonPayDetailPayloads} \cup Failures
SearchAnswers == {Ok(d) : d \in SearchPayloads} \cup Failures

\* the answers to the primary request of the call in slot s
PrimaryAnswers(s) ==
    IF calls[s].op = "fetchTopCoins" THEN MarketsAnswers
    ELSE IF calls[s].op = "fetchCoinData" THEN DetailAnswers(calls[s].a.coinId)
    ELSE SearchAnswers

(***************************************************************************)
(* SpecFetch: the two provider chains over the API cache.                  *)
(***************************************************************************)
MayCall == ncalls < MaxCalls /\ InFlight < MaxInFlight

NextFetch ==
    \/ \E currency \in Currencies, limit \in Limits :
           MayCall /\ FetchTopCoins(currency, limit)
    \/ \E coinId \in CoinIds, currency \in Currencies :
           MayCall /\ FetchCoinData(coinId, currency)
    \/ \E s \in DOMAIN calls : RetryPrimary(s)
    \/ \E s \in DOMAIN calls : \E r \in PrimaryAnswers(s) : TopPrimaryResponse(s, r)
    \/ \E s \in DOMAIN calls, r \in MoonPayListAnswers : TopSecondaryResponse(s, r)
    \/ \E s \in DOMAIN calls : \E r \in PrimaryAnswers(s) : CoinPrimaryResponse(s, r)
    \/ \E s \in DOMAIN calls, r \in MoonPayDetailAnswers : CoinSecondaryResponse(s, r)
    \/ \E d \in FetchSteps : ticks < MaxTicks /\ Tick(d)
    \/ Sweep

SpecFetch == Init /\ [][NextFetch]_vars

(***************************************************************************)
(* SpecKeys: the two provider chains called with identifiers and           *)
(* currencies that hold an underscore.                                     *)
(***************************************************************************)
MayCallKeys == ncalls < MaxKeyCalls /\ InFlight < MaxInFlight

NextKeys ==
    \/ \E currency \in KeyCurrencies, limit \in Limits :
           MayCallKeys /\ FetchTopCoins(currency, limit)
    \/ \E coinId \in KeyCoinIds, currency \in KeyCurrencies :
           MayCallKeys /\ FetchCoinData(coinId, currency)
    \/ \E s \in DOMAIN calls : RetryPrimary(s)
    \/ \E s \in DOMAIN calls : \E r \in PrimaryAnswers(s) : TopPrimaryResponse(s, r)
    \/ \E s \in DOMAIN calls, r \in MoonPayListAnswers : TopSecondaryResponse(s, r)
    \/ \E s \in DOMAIN calls : \E r \in PrimaryAnswers(s) : CoinPrimaryResponse(s, r)
    \/ \E s \in DOMAIN calls, r \in MoonPayDetailAnswers : CoinSecondaryResponse(s, r)
    \/ \E d \in FetchSteps : ticks < MaxKeyTicks /\ Tick(d)
    \/ Sweep

SpecKeys == Init /\ [][NextKeys]_vars

(***************************************************************************)
(* SpecImage: image resolution with its detail lookups and probes.         *)
(***************************************************************************)
NextImage ==
    \/ \E code \in ImageCodes : ncalls < MaxImageCalls /\ GetCryptoImageUrl(code)
    \/ \E coinId \in BagToSet(lookups), r \in LookupAnswers : LookupResponse(coinId, r)
    \/ \E p \in BagToSet(probes) : ProbeLoad(p)
    \/ \E p \in BagToSet(probes) : ProbeError(p)
    \/ \E d \in ImageSteps : ticks < MaxImageTicks /\ Tick(d)

SpecImage == Init /\ [][NextImage]_vars

(***************************************************************************)
(* SpecResolve: image resolution over one code per branch.                 *)
(***************************************************************************)
NextResolve ==
    \/ \E code \in ResolveCodes : ncalls < MaxResolveCalls /\ GetCryptoImageUrl(code)
    \/ \E coinId \in BagToSet(lookups), r \in LookupAnswers : LookupResponse(coinId, r)
    \/ \E p \in BagToSet(probes) : ProbeLoad(p)
    \/ \E p \in BagToSet(probes) : ProbeError(p)
    \/ \E d \in ImageSteps : ticks < MaxResolveTicks /\ Tick(d)

SpecResolve == Init /\ [][NextResolve]_vars

(***************************************************************************)
(* SpecOps: every operation of the client.                                 *)
(***************************************************************************)
MayCallOps == ncalls < MaxOpsCalls /\ InFlight < MaxInFlight

NextOps ==
    \/ \E currency \in Currencies, limit \in Limits :
           MayCallOps /\ FetchTopCoins(currency, limit)
    \/ \E coinId \in CoinIds, currency \in Currencies :
           MayCallOps /\ FetchCoinData(coinId, currency)
    \/ \E query \in Queries : MayCallOps /\ SearchCryptocurrencies(query)
    \/ \E code \in ImageCodes : ncalls < MaxOpsCalls /\ GetCryptoImageUrl(code)
    \/ \E s \in DOMAIN calls : RetryPrimary(s)
    \/ \E s \in DOMAIN calls : \E r \in PrimaryAnswers(s) : TopPrimaryResponse(s, r)
    \/ \E s \in DOMAIN calls, r \in MoonPayListAnswers : TopSecondaryResponse(s, r)
    \/ \E s \in DOMAIN calls : \E r \in PrimaryAnswers(s) : CoinPrimaryResponse(s, r)
    \/ \E s \in DOMAIN calls, r \in MoonPayDetailAnswers : CoinSecondaryResponse(s, r)
    \/ \E s \in DOMAIN calls : \E r \in PrimaryAnswers(s) : SearchResponse(s, r)
    \/ \E coinId \in BagToSet(lookups), r \in LookupAnswers : LookupResponse(coinId, r)
    \/ \E p \in BagToSet(probes) : ProbeLoad(p)
    \/ \E p \in BagToSet(probes) : ProbeError(p)
    \/ \E d \in OpsSteps : ticks < MaxOpsTicks /\ Tick(d)
    \/ Sweep

SpecOps == Init /\ [][NextOps]_vars

(***************************************************************************)
(* formatPrice: lines 463-473.  A price is << whole, frac >>, frac counting *)
(* units of 10^-FracDigits; what is rendered is kept next to its text.     *)
(***************************************************************************)
FracDigits == 7
Pow10(d) == << 1, 10, 100, 1000, 10000, 100000, 1000000, 10000000, 100000000 >>[d + 1]
Price(whole, frac) == [t |-> "number", v |-> << whole, frac >>]
\* the last width decimal digits of n
RECURSIVE Digits(_, _)
Digits(n, width) ==
    IF width = 0
    THEN ""
    ELSE Digits(n \div 10, width - 1)
             \o << "0", "1", "2", "3", "4", "5", "6", "7", "8", "9" >>[(n % 10) + 1]

\* Number.prototype.toFixed(d): the decimal with d digits nearest to the number.
\* Half way between two of them the larger one is taken when the number is the
\* double itself (frac a multiple of 2^-FracDigits); otherwise the double lies
\* on one side of the decimal written here, and the side is not known.
toFixed(p, d) ==
    LET scale == Pow10(FracDigits - d)
        q == p[2] \div scale
        r == p[2] % scale
        ups == IF 2 * r > scale THEN {1}
               ELSE IF 2 * r < scale THEN {0}
               ELSE IF p[2] % 78125 = 0 THEN {1}
               ELSE {0, 1}
    IN  {IF q + u = Pow10(d)
         THEN [whole |-> p[1] + 1, frac |-> 0]
         ELSE [whole |-> p[1], frac |-> q + u] : u \in ups}

\* replace(/\B(?=(\d{3})+(?!\d))/g, ',') on the digits of n
RECURSIVE Grouped(_)
Grouped(n) ==
    IF n < 1000 THEN ToString(n) ELSE Grouped(n \div 1000) \o "," \o Digits(n % 1000, 3)

\* the separators left out
Separated_never(n, grouped) == ToString(n)

\* the integer part as the branch writes it
Separated(n, grouped) == IF grouped THEN Grouped(n) ELSE ToString(n)

\* the text of a rendered number with its decimals
Rendered(x, decimals, grouped) ==
    [text |-> "$" \o Separated(x.whole, grouped)
                  \o (IF decimals = 0 THEN "" ELSE "." \o Digits(x.frac, decimals)),
     whole |-> x.whole, frac |-> x.frac, decimals |-> decimals, grouped |-> grouped]

\* lines 463-473: the set of what formatPrice may return for price
formatPrice(price) ==
    IF price \in {JUndef, JNull}
    THEN {[text |-> "$0", whole |-> 0, frac |-> 0, decimals |-> 0, grouped |-> FALSE]}
    ELSE IF price.v[1] >= 1000
    THEN {Rendered(x, 0, TRUE) : x \in toFixed(price.v, 0)}
    ELSE IF price.v[1] >= 1
    THEN {Rendered(x, 2, FALSE) : x \in toFixed(price.v, 2)}
    ELSE {Rendered(x, 6, FALSE) : x \in toFixed(price.v, 6)}

\* the prices a view formats: around the three branches and their borders
PriceInputs ==
    LET wholes == {0, 1, 2, 999, 1000, 1234, 999999, 1234567}
        fracs == {0, 456, 4999, 50000, 5000000, 9949999, 9950000, 9960000, 9999994,
                  9999995, 9999996}
    IN  {Price(whole, frac) : whole \in wholes, frac \in fracs} \cup {JNull}

\* a view calls formatPrice(price)
FormatPrice(price) ==
    /\ \E shown \in formatPrice(price) :
           last' = [shown |-> shown]
                       @@ Returned(Plain("formatPrice", [price |-> price]), "value",
                                   [t |-> "string", v |-> shown.text], "none", {})
    /\ sent' = {}
    /\ UNCHANGED << calls, apiCache, fetched, rateLimitedUntil >>
    /\ ImgUnchanged /\ ClockUnchanged /\ HistoryUnchanged
    /\ Called

NextFormat == \E price \in PriceInputs : ncalls < MaxFormatCalls /\ FormatPrice(price)

SpecFormat == Init /\ [][NextFormat]_vars

(***************************************************************************)
(* SpecRetry: the two provider chains, one at a time, with the scheduling  *)
(* of the page: a pending setTimeout fires (line 589), a request ends with *)
(* a response or an error, the timeout of 5 s at the latest.               *)
(***************************************************************************)
\* some call is inside fetchWithRetry: its request is out or its backoff runs
InRetry == \E s \in DOMAIN calls : calls[s].pc \in {"primary", "backoff"}
\* the backoff timer of some call has not fired yet
TimerPending == \E s \in DOMAIN calls : calls[s].pc = "backoff" /\ now < calls[s].wake

\* time passes: at will within the budget, and always while a timer is pending
RetryTick == (ticks < MaxRetryTicks \/ TimerPending) /\ Tick(API_BACKOFF_MS)
RetryTimer == \E s \in DOMAIN calls : RetryPrimary(s)
RetryPrimaryAnswer ==
    \E s \in DOMAIN calls : \E r \in PrimaryAnswers(s) :
        TopPrimaryResponse(s, r) \/ CoinPrimaryResponse(s, r)
RetrySecondaryAnswer ==
    \/ \E s \in DOMAIN calls, r \in MoonPayListAnswers : TopSecondaryResponse(s, r)
    \/ \E s \in DOMAIN calls, r \in MoonPayDetailAnswers : CoinSecondaryResponse(s, r)

NextRetry ==
    \/ \E currency \in Currencies, limit \in Limits :
           ncalls < MaxRetryCalls /\ InFlight = 0 /\ FetchTopCoins(currency, limit)
    \/ \E coinId \in CoinIds, currency \in Currencies :
           ncalls < MaxRetryCalls /\ InFlight = 0 /\ FetchCoinData(coinId, currency)
    \/ RetryTimer
    \/ RetryPrimaryAnswer
    \/ RetrySecondaryAnswer
    \/ RetryTick

\* the clock runs and a due timer fires (setTimeout, line 584); every primary
\* request settles, at the latest by its abort timer of 5 s (lines 564-565)
SpecRetry ==
    /\ Init
    /\ [][NextRetry]_vars
    /\ WF_vars(RetryTimer \/ RetryTick)
    /\ WF_vars(RetryPrimaryAnswer)

(***************************************************************************)
(* SpecWidget: the compact widget of compact-crypto.js, its auto-refresh   *)
(* timer and its loads.  The page and the user call the methods in any     *)
(* order; a live timer fires, a pending fetch settles.                     *)
(***************************************************************************)
WidgetCoins == {"bitcoin", "ethereum"}
\* data-value of the currency options, lines 204-207
WidgetCurrencies == {"usd", "eur"}
\* data-value of the interval options, lines 213-220
IntervalOptions == {"1000", "300000", "manual"}

\* the fields of the service module, which the widget does not use
ServiceUnchanged ==
    /\ UNCHANGED << COINGECKO_API_KEY, MOONPAY_API_KEY, calls, apiCache, fetched,
                    rateLimitedUntil, sent >>
    /\ ImgUnchanged /\ HistoryUnchanged
\* a method of the widget returned
WidgetDid(op, a) == last' = [op |-> op, a |-> a]

\* clearInterval: an id that names no live timer is ignored
clearInterval(tm, id) == [tm EXCEPT !.live = {t \in @ : t.id # id}]
\* setInterval: a new id, never issued before
setInterval(tm, period) ==
    [issued |-> tm.issued + 1,
     live |-> tm.live \cup {[id |-> tm.issued + 1, period |-> period]}]

\* startAutoRefresh that leaves the running timer alone
startAutoRefresh_keeps(w, tm) ==
    [w |-> [w EXCEPT !.activeInterval = tm.issued + 1],
     tm |-> setInterval(tm, w.updateInterval)]

\* lines 459-467: the widget and the timers after startAutoRefresh
startAutoRefresh(w, tm) ==
    LET cleared == IF w.activeInterval # NoInterval
                   THEN clearInterval(tm, w.activeInterval) ELSE tm
    IN  [w |-> [w EXCEPT !.activeInterval = cleared.issued + 1],
         tm |-> setInterval(cleared, w.updateInterval)]

\* lines 435-454
updateRefreshInterval(w, tm, interval) ==
    LET cleared == IF w.activeInterval # NoInterval
                   THEN [w |-> [w EXCEPT !.activeInterval = NoInterval],
                         tm |-> clearInterval(tm, w.activeInterval)]
                   ELSE [w |-> w, tm |-> tm]
    IN  IF interval # "manual"
        THEN startAutoRefresh([cleared.w EXCEPT !.updateInterval = parseInt(interval)],
                              cleared.tm)
        ELSE cleared

\* lines 1045-1049: the timer is cleared, the field keeps its id
destroy(w, tm) ==
    [w |-> w,
     tm |-> IF w.activeInterval # NoInterval THEN clearInterval(tm, w.activeInterval) ELSE tm]

\* lines 554-559: showLoading throws where there is no container
showLoading(dom, show) == [dom EXCEPT !.loading = show]
\* lines 477-483: with a container the overlay is shown and the request for
\* the current coin goes out; without one showLoading throws and the promise
\* is rejected before any request
loadCoinData(w, dom, ld) ==
    IF dom.t = "element"
    THEN [dom |-> showLoading(dom, TRUE), ld |-> ld (+) SetToBag({w.currentCoin})]
    ELSE [dom |-> dom, ld |-> ld]

\* lines 485-495: the request for coin settled; data carries the coin it was
\* asked for, the amounts are read in the currency selected now
LoadSettled(w, dom, coin, ok) ==
    IF dom.t # "element"
    THEN dom
    ELSE IF ok
    THEN showLoading([dom EXCEPT !.shown = [coin |-> coin, currency |-> w.currentCurrency]],
                     FALSE)
    ELSE showLoading(dom, FALSE)

\* lines 32-63; getElementById gives null for an id the document does not hold
InitWidget(found, defaultCoin, defaultCurrency) ==
    /\ Called
    /\ IF ~found
       THEN /\ container' = JNull
            /\ UNCHANGED << compactCryptoWidget, timers, loads >>
       ELSE LET w == [compactCryptoWidget EXCEPT !.currentCoin = defaultCoin,
                                                !.currentCurrency = defaultCurrency]
                l == loadCoinData(w, FreshDOM, loads)
                r == startAutoRefresh(w, timers)
            IN  /\ container' = l.dom
                /\ loads' = l.ld
                /\ compactCryptoWidget' = r.w
                /\ timers' = r.tm
    /\ WidgetDid("initWidget", [found |-> found])
    /\ UNCHANGED << now, ticks, localStorage, created >>
    /\ ServiceUnchanged

\* lines 641-644, called from the click handlers of lines 624-626 and 719-721
SelectCoin(coinId) ==
    /\ container.t = "element"
    /\ Called
    /\ LET w == [compactCryptoWidget EXCEPT !.currentCoin = coinId]
           l == loadCoinData(w, container, loads)
       IN  /\ compactCryptoWidget' = w
           /\ container' = l.dom
           /\ loads' = l.ld
    /\ WidgetDid("selectCoin", [coinId |-> coinId])
    /\ UNCHANGED << now, ticks, localStorage, created, timers >>
    /\ ServiceUnchanged

\* lines 350-358: a currency option is clicked
SelectCurrency(currency) ==
    /\ container.t = "element"
    /\ Called
    /\ LET w == [compactCryptoWidget EXCEPT !.currentCurrency = currency]
           l == loadCoinData(w, container, loads)
       IN  /\ compactCryptoWidget' = w
           /\ container' = l.dom
           /\ loads' = l.ld
    /\ WidgetDid("selectCurrency", [currency |-> currency])
    /\ UNCHANGED << now, ticks, localStorage, created, timers >>
    /\ ServiceUnchanged

UpdateRefreshInterval(interval) ==
    /\ Called
    /\ LET r == updateRefreshInterval(compactCryptoWidget, timers, interval)
       IN  compactCryptoWidget' = r.w /\ timers' = r.tm
    /\ WidgetDid("updateRefreshInterval", [interval |-> interval])
    /\ UNCHANGED << now, ticks, localStorage, created, container, loads >>
    /\ ServiceUnchanged

StartAutoRefresh ==
    /\ Called
    /\ LET r == startAutoRefresh(compactCryptoWidget, timers)
       IN  compactCryptoWidget' = r.w /\ timers' = r.tm
    /\ WidgetDid("startAutoRefresh", << >>)
    /\ UNCHANGED << now, ticks, localStorage, created, container, loads >>
    /\ ServiceUnchanged

Destroy ==
    /\ Called
    /\ LET r == destroy(compactCryptoWidget, timers)
       IN  compactCryptoWidget' = r.w /\ timers' = r.tm
    /\ WidgetDid("destroy", << >>)
    /\ UNCHANGED << now, ticks, localStorage, created, container, loads >>
    /\ ServiceUnchanged

\* lines 464-466: a live timer fires after its period
TimerFires(timer) ==
    /\ timer \in timers.live
    /\ now' = now + timer.period
    /\ ticks' = ticks + 1
    /\ LET l == loadCoinData(compactCryptoWidget, container, loads)
       IN  container' = l.dom /\ loads' = l.ld
    /\ WidgetDid("autoRefresh", [id |-> timer.id])
    /\ UNCHANGED << ncalls, localStorage, created, compactCryptoWidget, timers >>
    /\ ServiceUnchanged

\* the fetch of a load settles: a response that is ok, or an error
LoadResponse(coin, ok) ==
    /\ BagIn(coin, loads)
    /\ loads' = loads (-) SetToBag({coin})
    /\ container' = LoadSettled(compactCryptoWidget, container, coin, ok)
    /\ last' = [op |-> "loadCoinData", a |-> [coin |-> coin], ok |-> ok]
    /\ UNCHANGED << now, ticks, ncalls, localStorage, created, compactCryptoWidget, timers >>
    /\ ServiceUnchanged

NextWidget ==
    \/ \E found \in BOOLEAN, coin \in WidgetCoins, currency \in WidgetCurrencies :
           ncalls < MaxWidgetCalls /\ InitWidget(found, coin, currency)
    \/ \E coin \in WidgetCoins : ncalls < MaxWidgetCalls /\ SelectCoin(coin)
    \/ \E currency \in WidgetCurrencies : ncalls < MaxWidgetCalls /\ SelectCurrency(currency)
    \/ \E interval \in IntervalOptions :
           ncalls < MaxWidgetCalls /\ UpdateRefreshInterval(interval)
    \/ ncalls < MaxWidgetCalls /\ StartAutoRefresh
    \/ ncalls < MaxWidgetCalls /\ Destroy
    \/ \E timer \in timers.live : ticks < MaxWidgetTicks /\ TimerFires(timer)
    \/ \E coin \in WidgetCoins, ok \in BOOLEAN : LoadResponse(coin, ok)

SpecWidget == Init /\ [][NextWidget]_vars

(***************************************************************************)
(* SpecTransactions: the messages of the purchase window handled by the    *)
(* widget (lines 859-880) and the list they keep in localStorage.          *)
(***************************************************************************)
Str(text) == [t |-> "string", v |-> text]
\* x === y on undefined and strings
StrictEq(x, y) == x.t = y.t /\ (x.t = "string" => x.v = y.v)
\* o.f on an object parsed from JSON: undefined where the property is missing
Prop(o, f) == IF f \in DOMAIN o THEN o[f] ELSE JUndef
\* new Date().toISOString(): the instant in text, which orders as the instants do
toISOString(t) == [t |-> "string", v |-> << "ISO", t >>]

\* the ids the purchase window gives its transactions, in the order it creates them
TxIds == << "tx1", "tx2", "tx3", "tx4", "tx5", "tx6", "tx7", "tx8", "tx9", "tx10",
            "tx11", "tx12", "tx13" >>
\* the transactions a message may name again, and an id never created
KnownTxIds == {"tx1", "tx2"}
UnknownTxId == "tx0"
Transaction(id, status) ==
    [id |-> Str(id), baseCurrencyCode |-> Str("btc"), baseCurrencyAmount |-> Str("0.01"),
     status |-> status]

\* JSON.stringify leaves out a property whose value is undefined; JSON.parse
\* gives back what is left
JSONRoundTrip(list) ==
    [i \in 1..Len(list) |->
        [f \in {g \in DOMAIN list[i] : list[i][g].t # "undefined"} |-> list[i][f]]]
\* lines 1005-1008
getTransactionsFromStorage(ls) == IF ls.t = "null" THEN << >> ELSE ls.v
\* lines 1013-1015
saveTransactionsToStorage(transactions) ==
    [t |-> "string", v |-> JSONRoundTrip(transactions)]

\* lines 891-898: the entry put in front of the list
NewEntry(transaction, t) ==
    [id |-> transaction.id, type |-> Str("buy"), crypto |-> transaction.baseCurrencyCode,
     amount |-> transaction.baseCurrencyAmount, status |-> transaction.status,
     date |-> toISOString(t)]

\* a handler that never cuts the list
Truncate_never(transactions) == transactions

\* lines 901-903: transactions.length = 10
Truncate(transactions) ==
    IF Len(transactions) > RecentCap THEN SubSeq(transactions, 1, RecentCap)
    ELSE transactions

\* lines 886-905: the item after the handler
handleTransactionCreated(ls, transaction, t) ==
    saveTransactionsToStorage(
        Truncate(<< NewEntry(transaction, t) >> \o getTransactionsFromStorage(ls)))

\* Array.prototype.findIndex with t => t.id === id; 0 stands for -1
findIndex(transactions, id) ==
    LET hits == {i \in 1..Len(transactions) : StrictEq(Prop(transactions[i], "id"), id)}
    IN  IF hits = {} THEN 0 ELSE CHOOSE i \in hits : \A j \in hits : i <= j

\* lines 918-928: the item after the handler; nothing is saved without a match
handleTransactionUpdated(ls, transaction) ==
    LET transactions == getTransactionsFromStorage(ls)
        index == findIndex(transactions, transaction.id)
    IN  IF index # 0
        THEN saveTransactionsToStorage(
                 [transactions EXCEPT ![index] =
                     [f \in DOMAIN @ \cup {"status"} |->
                         IF f = "status" THEN transaction.status ELSE @[f]]])
        ELSE ls

\* the ids of the created messages handled so far
CreatedIds == {created[i].id.v : i \in 1..Len(created)}
\* a created message carries the id of a new transaction, or, once in a run,
\* names a known transaction again (the message is delivered twice)
CreatedMessageIds ==
    {TxIds[Cardinality(CreatedIds) + 1]}
        \cup (IF Len(created) = Cardinality(CreatedIds)
              THEN KnownTxIds \cap CreatedIds ELSE {})

\* line 866-868: a 'moonpay_transaction_created' message
TransactionCreated(transaction) ==
    /\ Called
    /\ localStorage' = handleTransactionCreated(localStorage, transaction, now)
    /\ created' = Append(created, [id |-> transaction.id, date |-> toISOString(now)])
    /\ WidgetDid("handleTransactionCreated", transaction)
    /\ UNCHANGED << now, ticks, compactCryptoWidget, container, timers, loads >>
    /\ ServiceUnchanged

\* line 869-871: a 'moonpay_transaction_updated' message
TransactionUpdated(transaction) ==
    /\ Called
    /\ localStorage' = handleTransactionUpdated(localStorage, transaction)
    /\ WidgetDid("handleTransactionUpdated", transaction)
    /\ UNCHANGED << now, ticks, created, compactCryptoWidget, container, timers, loads >>
    /\ ServiceUnchanged

NextTransactions ==
    \/ \E id \in CreatedMessageIds :
           Len(created) < MaxCreated /\ TransactionCreated(Transaction(id, Str("pending")))
    \/ \E id \in KnownTxIds \cup {UnknownTxId}, status \in {Str("completed"), JUndef} :
           /\ ncalls - Len(created) < MaxUpdated
           /\ TransactionUpdated(Transaction(id, status))
    \/ ticks < MaxTransactionTicks /\ Tick(1000)

\* the widget reads no key: one environment is enough
InitTransactions == Loaded /\ COINGECKO_API_KEY = "" /\ MOONPAY_API_KEY = ""
SpecTransactions == InitTransactions /\ [][NextTransactions]_vars

(***************************************************************************)
(* SpecEnv: the operations in every environment, one request chain at a    *)
(* time.                                                                   *)
(***************************************************************************)
NextEnv ==
    \/ \E currency \in Currencies, limit \in Limits :
           ncalls < MaxEnvCalls /\ InFlight = 0 /\ FetchTopCoins(currency, limit)
    \/ \E coinId \in CoinIds, currency \in Currencies :
           ncalls < MaxEnvCalls /\ InFlight = 0 /\ FetchCoinData(coinId, currency)
    \/ \E code \in SearchCodes : ncalls < MaxEnvCalls /\ GetCryptoImageUrl(code)
    \/ \E s \in DOMAIN calls : RetryPrimary(s)
    \/ \E s \in DOMAIN calls : \E r \in PrimaryAnswers(s) : TopPrimaryResponse(s, r)
    \/ \E s \in DOMAIN calls, r \in MoonPayListAnswers : TopSecondaryResponse(s, r)
    \/ \E s \in DOMAIN calls : \E r \in PrimaryAnswers(s) : CoinPrimaryResponse(s, r)
    \/ \E s \in DOMAIN calls, r \in MoonPayDetailAnswers : CoinSecondaryResponse(s, r)
    \/ \E coinId \in BagToSet(lookups), r \in LookupAnswers : LookupResponse(coinId, r)
    \/ \E p \in BagToSet(probes) : ProbeLoad(p)
    \/ \E p \in BagToSet(probes) : ProbeError(p)
    \/ \E d \in OpsSteps : ticks < MaxEnvTicks /\ Tick(d)

SpecEnv == InitEnv /\ [][NextEnv]_vars

(***************************************************************************)
(* SpecSearch: searchCryptocurrencies next to the image resolution it      *)
(* calls and shares its state with, one search at a time.                  *)
(***************************************************************************)
NextSearch ==
    \/ \E query \in Queries :
           ncalls < MaxSearchCalls /\ InFlight = 0 /\ SearchCryptocurrencies(query)
    \/ \E code \in SearchCodes : ncalls < MaxSearchCalls /\ GetCryptoImageUrl(code)
    \/ \E s \in DOMAIN calls : \E r \in PrimaryAnswers(s) : SearchResponse(s, r)
    \/ \E coinId \in BagToSet(lookups), r \in LookupAnswers : LookupResponse(coinId, r)
    \/ \E p \in BagToSet(probes) : ProbeLoad(p)
    \/ \E p \in BagToSet(probes) : ProbeError(p)
    \/ \E d \in OpsSteps : ticks < MaxSearchTicks /\ Tick(d)

SpecSearch == Init /\ [][NextSearch]_vars

(***************************************************************************)
(* Properties.                                                             *)
(***************************************************************************)
FetchOps == {"fetchTopCoins", "fetchCoinData"}
FiveMinutes == 5 * 60 * 1000

\* C1: a call of fetchTopCoins or fetchCoinData made less than 5 minutes after a
\* provider last delivered a payload for the same parameters sends no request (it
\* never becomes a pending request chain) and returns that payload from the cache.
C1_FreshCallIsCacheHit ==
    /\ \A s \in DOMAIN calls : ~calls[s].fresh
    /\ (last.op \in FetchOps /\ last.fresh) =>
           /\ last.hit
           /\ last.result = last.expected
           /\ last.nPrimary = 0 /\ last.nSecondary = 0 /\ last.reqs = {}

C1_Witness ==
    /\ last.op = "fetchCoinData" /\ last.fresh /\ last.hit
    /\ last.hitAge = 299000
    /\ last.result = fetched[CoinKey(last.a.coinId, last.a.currency)].data

\* C6: getApiData never returns an entry stored more than 5 minutes ago: no call is
\* served from the cache by such an entry, and while such an entry is still in the
\* cache (the sweep has not removed it yet) a read of its key finds nothing.
C6_NoExpiredRead ==
    /\ (last.op \in FetchOps /\ last.hit) => ~(last.hitAge > FiveMinutes)
    /\ \A key \in DOMAIN apiCache :
           now - apiCache[key].timestamp > FiveMinutes =>
               getApiData(apiCache, key, now) = JUndef

\* a call went to the provider although the cache still held an entry for its key
C6_Witness == \E s \in DOMAIN calls : calls[s].staleMiss

\* C9: within one call of fetchTopCoins or fetchCoinData at most one request goes to
\* the secondary provider, and only after the primary attempt of that call failed;
\* a call served from the cache sends no request.
C9_TwoTiersInOrder ==
    /\ \A s \in DOMAIN calls :
           /\ calls[s].nSecondary <= 1
           /\ calls[s].nSecondary > 0 => calls[s].primaryFailed /\ calls[s].nPrimary >= 1
           /\ calls[s].pc = "secondary" <=> calls[s].nSecondary = 1
    /\ last.op \in FetchOps =>
           /\ last.nSecondary <= 1
           /\ last.nSecondary > 0 => last.primaryFailed /\ last.nPrimary >= 1
           /\ last.hit => last.nPrimary = 0 /\ last.nSecondary = 0 /\ last.reqs = {}
    /\ \A q \in sent :
           q.to = "secondary" =>
               \E s \in DOMAIN calls : calls[s].pc = "secondary" /\ calls[s].primaryFailed

C9_Witness ==
    /\ last.op \in FetchOps /\ last.secondary = "quote"
    /\ last.primaryFailed /\ last.nPrimary = 1 /\ last.nSecondary = 1

\* C4: when the primary and the secondary provider both fail, fetchTopCoins returns
\* the five built-in quotes bitcoin, ethereum, solana, cardano, godsdollar in this
\* order, with the built-in figures.
C4_FallbackList ==
    (last.op = "fetchTopCoins" /\ last.secondary = "failed") =>
        /\ last.primaryFailed
        /\ last.outcome = "value"
        /\ IsArray(last.result)
        /\ Len(last.result.v) = 5
        /\ [i \in 1 .. 5 |-> last.result.v[i].id]
               = << "bitcoin", "ethereum", "solana", "cardano", "godsdollar" >>
        /\ \A i \in 1 .. 5 : \A f \in DOMAIN FallbackRows[i] :
               last.result.v[i][f] = FallbackRows[i][f]

C4_Witness ==
    /\ last.op = "fetchTopCoins" /\ last.secondary = "failed" /\ last.failure = "error"
    /\ Len(last.result.v) = 5

\* C10: when neither provider yields a quote (the request errors or answers without
\* data) fetchCoinData returns the built-in quote of the requested id if there
\* is one and null otherwise.
C10_FallbackQuote ==
    (last.op = "fetchCoinData" /\ last.secondary \in {"failed", "empty"}) =>
        IF \E i \in 1 .. Len(FallbackRows) : FallbackRows[i].id = last.a.coinId
        THEN Truthy(last.result) /\ last.result.v.id = last.a.coinId
        ELSE last.result = JNull

\* C7 as stated: a primary request that failed with an error other than 429 has been
\* sent MAX_RETRIES + 1 times when the call turns to the secondary provider.
C7_RetriesAnyError ==
    \A s \in DOMAIN calls :
        (calls[s].pc = "secondary" /\ calls[s].failure = "error") =>
            calls[s].nPrimary = MAX_RETRIES + 1

\* C7, amended: only a 429 is retried, up to 3 times and not before 2 seconds have
\* passed; any other failure of the primary request (network error, timeout, other
\* HTTP error, unusable payload) sends the call to the secondary provider at once.
C7_RetriesOnly429 ==
    \A s \in DOMAIN calls :
        /\ calls[s].retries <= 3
        /\ calls[s].nPrimary = calls[s].retries + 1
        /\ calls[s].pc = "backoff" => calls[s].failure = "429" /\ calls[s].retries < 3
        /\ (calls[s].pc = "primary" /\ calls[s].retries > 0) => now >= calls[s].wake
        /\ calls[s].pc = "secondary" =>
               IF calls[s].failure = "429"
               THEN calls[s].nPrimary = 4 /\ calls[s].n429 = 4
               ELSE calls[s].nPrimary = calls[s].n429 + 1

C7_Witness ==
    \E s \in DOMAIN calls :
        calls[s].pc = "secondary" /\ calls[s].failure = "429" /\ calls[s].nPrimary = 4

\* the reset hint of the last 429 answered to a detail lookup, in seconds (0: none)
HintSeconds ==
    IF last429.seen /\ last429.reset.present /\ last429.reset.value \in {"1", "2"}
    THEN parseInt(last429.reset.value)
    ELSE 0
\* fewer than N seconds have passed since a 429 with a reset hint of N seconds
HintWindow == last429.seen /\ HintSeconds > 0 /\ now < last429.at + HintSeconds * 1000

C5_AlwaysValue ==
    last.op # "none" =>
        /\ last.outcome = "value"
        /\ CASE last.op = "fetchTopCoins" -> IsArray(last.result)
             [] last.op = "fetchCoinData" -> last.result.t \in {"object", "null"}
             [] last.op = "searchCryptocurrencies" -> IsArray(last.result)
             [] last.op = "getCryptoImageUrl" ->
                    last.result.t = "string" /\ last.result.v # ""

C5_Witness ==
    /\ last.op = "fetchTopCoins" /\ last.secondary = "failed" /\ last.failure = "payload"
    /\ last.outcome = "value"

\* C3: an identifier whose detail lookup was answered 400 or 404 is on the blacklist
\* from then on, and no detail lookup is sent for it again.
C3_BlacklistedForGood ==
    /\ got404 \subseteq coinBlacklist
    /\ \A q \in sent : q.op = "image" => q.id \notin got404

C3_Witness ==
    /\ "godsdollar" \in got404
    /\ last.op = "getCryptoImageUrl" /\ last.a.code = "GODSDOLLAR" /\ last.a.blacklisted
    /\ last.reqs = {}

\* C8 as stated: a 429 without a reset hint sets the deadline 5 minutes ahead.
C8_DefaultFiveMinutes ==
    (last429.seen /\ ~last429.reset.present) =>
        rateLimitedUntil = last429.at + FiveMinutes

\* C8, amended: the last 429 of a detail lookup, received at time t, sets the
\* deadline to t + N seconds when its reset hint is the number N other than 0, to
\* t + 60 seconds when it has no hint or an empty one, and to t + 5 minutes when the
\* hint is 0.
C8_Deadline ==
    last429.seen =>
        rateLimitedUntil = last429.at +
            (CASE ~last429.reset.present -> 60 * 1000
               [] last429.reset.value = "" -> 60 * 1000
               [] last429.reset.value = "0" -> FiveMinutes
               [] last429.reset.value = "1" -> 1 * 1000
               [] last429.reset.value = "2" -> 2 * 1000)

C8_Witness ==
    /\ last429.seen /\ ~last429.reset.present
    /\ rateLimitedUntil = last429.at + 60 * 1000
    /\ isRateLimited(now, rateLimitedUntil)

\* C11: a detail lookup sent for an identifier is entered in the ledger with the
\* time it left; while an entry of the ledger is at most 1 minute old
\* shouldTryApiCall refuses the identifier; and a getCryptoImageUrl call made at
\* most 1 minute after the last lookup attempt for its identifier sends no request.
C11_Cooldown ==
    /\ \A q \in sent :
           q.op = "image" =>
               q.id \in DOMAIN apiCallAttempts /\ apiCallAttempts[q.id] = now
    /\ \A id \in DOMAIN apiCallAttempts :
           now - apiCallAttempts[id] <= 60 * 1000 => ~shouldTryApiCall(ImgState, id)
    /\ (last.op = "getCryptoImageUrl" /\ last.a.recent) => last.reqs = {}

\* one minute after the lookup of godsdollar, to the millisecond, it is resolved again
C11_Witness ==
    /\ COINGECKO_API_KEY # "" /\ rateLimitedUntil = 0 /\ coinBlacklist = {}
    /\ last.op = "getCryptoImageUrl" /\ last.a.code = "GODSDOLLAR" /\ last.a.recent
    /\ now - apiCallAttempts["godsdollar"] = 60 * 1000
    /\ last.reqs = {}

\* C12: an identifier is on the blacklist only if its detail lookup was answered
\* 400 or 404, or ended in an error more than once.
C12_BlacklistOnlyTerminal ==
    \A id \in coinBlacklist :
        \/ id \in got404
        \/ id \in DOMAIN errored /\ errored[id] > 1

\* the identifier of the last getCryptoImageUrl call has a table entry, is the
\* project coin, was cached, or is empty: the call needs neither lookup nor probe
C13_Settled ==
    \/ last.a.code = ""
    \/ last.a.cached # NoString
    \/ ToLower(last.a.code) \in {"godd", "bitcoin", "tron"}

\* C13 as stated: the result is the cached resolution, else the local-table path,
\* else the CDN-mapping url, else the best guess.
C13_FourWayPriority ==
    (last.op = "getCryptoImageUrl" /\ last.a.code # "") =>
        last.result.v =
            (IF last.a.cached # NoString THEN last.a.cached
             ELSE IF ToLower(last.a.code) = "bitcoin" THEN "/src/images/crypto/bitcoin.png"
             ELSE IF ToLower(last.a.code) = "tron"
                  THEN "https://assets.coingecko.com/coins/images/1958/small/tron.png"
             ELSE "https://assets.coingecko.com/coins/images/1000/small/"
                      \o ToLower(last.a.code) \o ".png?1684385264")

\* C13, amended: the result is the placeholder for an empty code, else the cached
\* resolution, else the project image for 'godd', else the local-table path, else
\* the CDN-mapping url, else the best guess; only the best guess starts a lookup
\* or a probe.
C13_Priority ==
    last.op = "getCryptoImageUrl" =>
        /\ last.result.v =
               (IF last.a.code = "" THEN "/public/placeholder.svg"
                ELSE IF last.a.cached # NoString THEN last.a.cached
                ELSE IF ToLower(last.a.code) = "godd" THEN "/src/images/main.png"
                ELSE IF ToLower(last.a.code) = "bitcoin" THEN "/src/images/crypto/bitcoin.png"
                ELSE IF ToLower(last.a.code) = "tron"
                     THEN "https://assets.coingecko.com/coins/images/1958/small/tron.png"
                ELSE "https://assets.coingecko.com/coins/images/1000/small/"
                         \o ToLower(last.a.code) \o ".png?1684385264")
        /\ C13_Settled => last.reqs = {} /\ ~last.a.probed
        /\ ~C13_Settled => last.a.probed

\* the first call for bitcoin, with a key and every lookup allowed
C13_Witness ==
    /\ last.op = "getCryptoImageUrl" /\ last.a.code = "bitcoin" /\ last.a.cached = NoString
    /\ COINGECKO_API_KEY # "" /\ ~last.a.gated /\ ~last.a.blacklisted
    /\ last.result.v = "/src/images/crypto/bitcoin.png"
    /\ last.reqs = {} /\ probes = EmptyBag /\ lookups = EmptyBag

\* the probe p was resolved by this step; a probe p was created by this step
ProbeLeft(p) == CopiesIn(p, probes') < CopiesIn(p, probes)
ProbeEntered(p) == CopiesIn(p, probes') > CopiesIn(p, probes)
ProbeOf(id, stage) == [id |-> id, stage |-> stage]
\* the url the image cache holds for id, in this state and in the next
CachedNow(id) == IF id \in DOMAIN imageCache THEN imageCache[id] ELSE NoString
CachedNext(id) == IF id \in DOMAIN imageCache' THEN imageCache'[id] ELSE NoString
\* no candidate of id is being probed after this step
ChainEnded(id) ==
    \A stage \in {"img", "fallbackImg", "altFallbackImg"} :
        ~BagIn(ProbeOf(id, stage), probes')
CandidateUrl(p) ==
    CASE p.stage = "img" -> Pattern1Url(p.id)
      [] p.stage = "fallbackImg" -> Pattern2Url(p.id)
      [] p.stage = "altFallbackImg" -> Pattern3Url(p.id)

\* C14 as stated: when probing stops at a candidate that loaded, the image cache
\* holds the url of that candidate.
C14_LoadedIsCached ==
    [][\A p \in BagToSet(probes) :
           (ProbeLeft(p) /\ ChainEnded(p.id) /\ CachedNext(p.id) # SvgPlaceholder(p.id)) =>
               CachedNext(p.id) = CandidateUrl(p)]_vars

\* C14, amended: the candidates are probed in the order best guess, pattern 2,
\* pattern 3, each created only by the step that resolves the one before it; a
\* step that resolves a candidate either creates the next one and leaves the
\* cache alone (it failed) or ends the chain (it loaded); a loaded pattern 2 or 3
\* is then the cached url, a loaded best guess writes nothing, so that the cache
\* keeps what it held; the letter avatar is written only by the step that
\* resolves pattern 3.
C14_ProbeOrder ==
    [][/\ \A p \in BagToSet(probes') :
              ProbeEntered(p) =>
                  CASE p.stage = "img" ->
                           p.id \notin DOMAIN imageCache /\ CachedNext(p.id) = Pattern1Url(p.id)
                    [] p.stage = "fallbackImg" -> ProbeLeft(ProbeOf(p.id, "img"))
                    [] p.stage = "altFallbackImg" -> ProbeLeft(ProbeOf(p.id, "fallbackImg"))
       /\ \A p \in BagToSet(probes) :
              ProbeLeft(p) =>
                  CASE p.stage = "img" ->
                           /\ CachedNext(p.id) = CachedNow(p.id)
                           /\ ChainEnded(p.id) \/ ProbeEntered(ProbeOf(p.id, "fallbackImg"))
                    [] p.stage = "fallbackImg" ->
                           \/ ChainEnded(p.id) /\ CachedNext(p.id) = Pattern2Url(p.id)
                           \/ /\ ProbeEntered(ProbeOf(p.id, "altFallbackImg"))
                              /\ CachedNext(p.id) = CachedNow(p.id)
                    [] p.stage = "altFallbackImg" ->
                           /\ ChainEnded(p.id)
                           /\ CachedNext(p.id) \in {Pattern3Url(p.id), SvgPlaceholder(p.id)}
       /\ \A id \in DOMAIN imageCache' :
              (CachedNext(id) = SvgPlaceholder(id) /\ CachedNow(id) # SvgPlaceholder(id)) =>
                  ProbeLeft(ProbeOf(id, "altFallbackImg"))]_vars

\* the best guess failed, pattern 2 loaded and is the cached url
C14_Witness ==
    /\ probes = EmptyBag
    /\ "godsdollar" \in DOMAIN imageCache
    /\ imageCache["godsdollar"]
           = "https://assets.coingecko.com/coins/images/search_fallback/godsdollar.png"

\* C15: once the lookup has stored the provider image of an identifier, the
\* image cache, which is what every later getCryptoImageUrl call for it returns,
\* holds that image after every further step, whatever callback the step runs.
C15_ProviderImageStays ==
    [][\A id \in DOMAIN imageCache :
           imageCache[id] = ProviderImage => CachedNext(id) = ProviderImage]_vars

\* the queries that are empty or hold white space only
BlankQueries == {"", " "}
\* this step is a searchCryptocurrencies call with a blank query that returned
BlankSearchStep ==
    /\ ncalls' = ncalls + 1
    /\ calls' = calls
    /\ last'.op = "searchCryptocurrencies"
    /\ last'.a.query \in BlankQueries

\* C16: searchCryptocurrencies with an empty or white-space query returns the
\* empty sequence at once: no such call is ever waiting for a response, no
\* request carries such a query, the call returns [] with no request sent, and
\* the step of the call leaves the image cache, the API cache, the cooldown
\* ledger, the blacklist and the rate-limit gate as they were.
C16_EmptyQuery ==
    /\ [](\A s \in DOMAIN calls :
              calls[s].op = "searchCryptocurrencies" => calls[s].a.query \notin BlankQueries)
    /\ [](\A q \in sent : q.op = "search" => q.id \notin BlankQueries)
    /\ []((last.op = "searchCryptocurrencies" /\ last.a.query \in BlankQueries) =>
              /\ last.outcome = "value"
              /\ last.result = Arr(<< >>)
              /\ last.reqs = {}
              /\ last.nPrimary = 0 /\ last.nSecondary = 0)
    /\ [][BlankSearchStep =>
              /\ sent' = {}
              /\ UNCHANGED << imageCache, apiCache, apiCallAttempts, coinBlacklist,
                              rateLimitedUntil, lookups, probes >>]_vars

\* a white-space query has returned while the image cache and the blacklist hold
\* entries
C16_Witness ==
    /\ last.op = "searchCryptocurrencies"
    /\ last.a.query = " "
    /\ last.result = Arr(<< >>)
    /\ DOMAIN imageCache # {}
    /\ coinBlacklist # {}

\* the rows of the provider's answer r to GET /search, none when it has no list
ProviderRows(r) ==
    IF r.kind = "ok" /\ Truthy(r.data) /\ "coins" \in DOMAIN r.data.v
    THEN r.data.v.coins
    ELSE << >>

\* C17: a search that went to the provider returns at most 15 records, the
\* first 15 of the provider's result in the provider's order, and the empty
\* sequence when the request failed.
C17_FirstFifteen ==
    (last.op = "searchCryptocurrencies" /\ last.a.query \notin BlankQueries) =>
        LET rows == ProviderRows(last.a.response)
            found == last.result.v
        IN  /\ last.outcome = "value"
            /\ IsArray(last.result)
            /\ Len(found) <= 15
            /\ Len(found) = (IF Len(rows) < 15 THEN Len(rows) ELSE 15)
            /\ \A i \in 1..Len(found) :
                   /\ found[i].id = rows[i].id
                   /\ found[i].name = rows[i].name
                   /\ found[i].symbol = rows[i].symbol
            /\ last.a.response.kind # "ok" => found = << >>

\* a provider result of 17 rows was cut to 15
C17_Witness ==
    /\ last.op = "searchCryptocurrencies"
    /\ last.a.query = "god"
    /\ Len(ProviderRows(last.a.response)) = 17
    /\ Len(last.result.v) = 15

\* a <= b on the numbers held as << billions, rest >>
BigLeq(a, b) == a[1] < b[1] \/ (a[1] = b[1] /\ a[2] <= b[2])

\* C18: every sequence fetchTopCoins returns, from the primary provider, the
\* secondary provider, the cache or the fallback list, has a market_cap that
\* does not increase from one element to the next.
C18_RankedByCap ==
    (last.op = "fetchTopCoins" /\ last.outcome = "value" /\ IsArray(last.result)) =>
        \A i \in 1..(Len(last.result.v) - 1) :
            BigLeq(last.result.v[i + 1].market_cap, last.result.v[i].market_cap)

\* the quote holds the numeric field g, with the value of the field f of the
\* secondary record when the record has it and with zero when it has not
KeptOrZero(record, f, quote, g, zero) ==
    /\ g \in DOMAIN quote
    /\ quote[g] = (IF f \in DOMAIN record THEN record[f] ELSE zero)
\* the quote is the secondary record with every numeric field defined
QuoteOfRecord(record, quote) ==
    /\ quote.id = record.code
    /\ KeptOrZero(record, "price", quote, "current_price", 0)
    /\ KeptOrZero(record, "change24Hour", quote, "price_change_percentage_24h", 0)
    /\ KeptOrZero(record, "marketCap", quote, "market_cap", Big0)
    /\ KeptOrZero(record, "rank", quote, "market_cap_rank", 0)
    /\ KeptOrZero(record, "volume24Hour", quote, "total_volume", Big0)

\* C19: what a call returns from the secondary provider is a value, not a
\* failure, and is the provider's answer record by record, each quote with its
\* five numeric fields defined: the record's value where it has one, 0 where
\* it has none.
C19_MissingIsZero ==
    (last.op \in FetchOps /\ last.secondary = "quote") =>
        /\ last.outcome = "value"
        /\ IF last.op = "fetchTopCoins"
           THEN /\ IsArray(last.result)
                /\ \E d \in MoonPayListPayloads :
                       /\ IsArray(d)
                       /\ Len(d.v) = Len(last.result.v)
                       /\ \A i \in 1..Len(d.v) : QuoteOfRecord(d.v[i], last.result.v[i])
           ELSE /\ last.result.t = "object"
                /\ \E d \in MoonPayDetailPayloads :
                       Truthy(d) /\ QuoteOfRecord(d.v, last.result.v)

\* a list with a record without numeric fields was returned, that record's
\* quote all zeros next to a complete one
C19_Witness ==
    /\ last.op = "fetchTopCoins"
    /\ last.secondary = "quote"
    /\ Len(last.result.v) = 2
    /\ last.result.v[1].id = "eth"
    /\ last.result.v[1].current_price = 0
    /\ last.result.v[1].market_cap = Big0
    /\ last.result.v[2].current_price = 5900000
    /\ last.result.v[2].market_cap = Big(0, 800)

\* the cache key of the call that returned last
LastKey ==
    IF last.op = "fetchTopCoins"
    THEN TopCoinsKey(last.a.currency, last.a.limit)
    ELSE CoinKey(last.a.coinId, last.a.currency)

\* C20: a call served from the cache is served from an entry that a call of the
\* same operation with the same parameters stored.
C20_KeySeparates ==
    (last.op \in FetchOps /\ last.hit) =>
        /\ LastKey \in DOMAIN fetched
        /\ fetched[LastKey].op = last.op
        /\ fetched[LastKey].a = last.a

\* C21: a call, whose first step is the read of the API cache, leaves the cache
\* as it was; an entry leaves the cache only when the sweep may run and the
\* entry is older than the expiry window, which a read at that moment already
\* answers with undefined; and at every moment a read of any key gives the
\* same result on the swept cache as on the cache itself.
C21_SweepOnlyPurges ==
    /\ [](\A key \in DOMAIN apiCache :
              getApiData(clearExpired(apiCache, now), key, now) = getApiData(apiCache, key, now))
    /\ [][/\ ncalls' = ncalls + 1 => apiCache' = apiCache
          /\ \A key \in DOMAIN apiCache \ DOMAIN apiCache' :
                 /\ now >= PageLoad + SweepPeriod
                 /\ now - apiCache[key].timestamp > cacheExpiry
                 /\ getApiData(apiCache, key, now) = JUndef]_vars

\* an entry a provider delivered was purged by the sweep, and a call made after
\* that missed the cache
C21_Witness ==
    /\ \E key \in DOMAIN fetched : key \notin DOMAIN apiCache
    /\ last.op \in FetchOps
    /\ ~last.hit
    /\ LastKey \in DOMAIN fetched
    /\ LastKey \notin DOMAIN apiCache

\* C22: without the key of the primary provider no image detail lookup is
\* sent or pending, without the key of the secondary provider no request to the
\* secondary provider is sent, and every operation that returns, returns a value.
C22_NoKeyNoRequest ==
    /\ COINGECKO_API_KEY = "" =>
           /\ lookups = EmptyBag
           /\ \A q \in sent : q.op # "image"
    /\ MOONPAY_API_KEY = "" => \A q \in sent : q.to # "secondary"
    /\ last.op # "none" => last.outcome = "value"

\* the price formatted last, and what was rendered for it
PriceNow == last.a.price.v
\* price >= bound, for a whole bound
PriceAtLeast(bound) == PriceNow[1] >= bound

\* C24: a price of 1000 or more is rendered rounded to no decimals with its
\* separators, a price from 1 up to 1000 with two decimals, a price below 1
\* with six, each after '$' (1234.5 as "$1,235", 2.5 as "$2.50", 0.0000456 as
\* "$0.000046"), and nothing rendered as 1000 or more has decimals or lacks
\* its separators.
C24_FormatPrice ==
    (last.op = "formatPrice" /\ last.a.price # JNull) =>
        /\ last.shown.decimals =
               (IF PriceAtLeast(1000) THEN 0 ELSE IF PriceAtLeast(1) THEN 2 ELSE 6)
        /\ PriceAtLeast(1000) => last.shown.grouped
        /\ PriceNow = << 1234, 5000000 >> => last.result.v = "$1,235"
        /\ PriceNow = << 2, 5000000 >> => last.result.v = "$2.50"
        /\ PriceNow = << 0, 456 >> => last.result.v = "$0.000046"
        /\ last.shown.whole >= 1000 => last.shown.decimals = 0 /\ last.shown.grouped

\* C24, amended: the same three renderings, each the decimal nearest to the
\* price, and no price of 1000 or more is rendered with decimals or without
\* its separators; a price below 1000 that rounds up to 1000 is rendered like
\* the prices below 1000, as "$1000.00".
C24_FormatByPrice ==
    (last.op = "formatPrice" /\ last.a.price # JNull) =>
        LET scale == Pow10(FracDigits - last.shown.decimals)
            off == (last.shown.whole - PriceNow[1]) * Pow10(FracDigits)
                       + last.shown.frac * scale - PriceNow[2]
        IN  /\ last.shown.decimals =
                   (IF PriceAtLeast(1000) THEN 0 ELSE IF PriceAtLeast(1) THEN 2 ELSE 6)
            /\ PriceAtLeast(1000) = last.shown.grouped
            /\ 2 * off <= scale /\ 2 * off >= 0 - scale
            /\ PriceNow = << 1234, 5000000 >> => last.result.v = "$1,235"
            /\ PriceNow = << 2, 5000000 >> => last.result.v = "$2.50"
            /\ PriceNow = << 0, 456 >> => last.result.v = "$0.000046"
            /\ PriceNow = << 1234567, 9960000 >> => last.result.v = "$1,234,568"
            /\ PriceNow = << 999, 9960000 >> => last.result.v = "$1000.00"

\* 999.996 was formatted
C24_Witness ==
    /\ last.op = "formatPrice"
    /\ last.a.price = Price(999, 9960000)
    /\ last.result.v = "$1000.00"

\* C25: a step starts at most one detail lookup for an identifier, which is in
\* lower case, and only for one that no earlier call resolved or attempted;
\* the same step records the attempt and stores a url in the image cache; no
\* step removes an entry of the image cache or of the ledger of attempts. So
\* no identifier gets a second lookup.
C25_OneLookup ==
    [][/\ \A id \in BagToSet(lookups') :
              CopiesIn(id, lookups') > CopiesIn(id, lookups) =>
                  /\ CopiesIn(id, lookups') = CopiesIn(id, lookups) + 1
                  /\ id = ToLower(id)
                  /\ id \notin DOMAIN imageCache /\ id \notin DOMAIN apiCallAttempts
                  /\ id \in DOMAIN imageCache' /\ id \in DOMAIN apiCallAttempts'
       /\ DOMAIN imageCache \subseteq DOMAIN imageCache'
       /\ DOMAIN apiCallAttempts \subseteq DOMAIN apiCallAttempts']_vars

\* the identifier was looked up once, the lookup was answered without a
\* blacklisting or a rate limit, and a later call spelling it in capitals
\* returned the cached url without a request
C25_Witness ==
    /\ last.op = "getCryptoImageUrl"
    /\ last.a.code = "GODSDOLLAR"
    /\ last.a.cached # NoString
    /\ last.reqs = {}
    /\ "godsdollar" \in DOMAIN apiCallAttempts
    /\ lookups = EmptyBag
    /\ ~last.a.blacklisted /\ ~last.a.gated

\* the step wrote the entry of key in the API cache
Written(key) == key \notin DOMAIN apiCache \/ apiCache'[key] # apiCache[key]
\* the call that returned last got nothing from either provider
TotalFailure == last.op \in FetchOps /\ ~last.hit /\ last.secondary \in {"failed", "empty"}

\* C26: the API cache is written only by the step in which a call returns what
\* the primary provider, or after its failure the secondary provider, answered,
\* under the key of the call; what a call returns after both failed is not in
\* the cache, and while its key has no entry the next call for it is no cache
\* hit; a call served from the cache, whichever provider filled the entry,
\* sends no request at all and returns the entry, younger than the window.
C26_CacheWrites ==
    /\ [](TotalFailure =>
              (LastKey \in DOMAIN apiCache => apiCache[LastKey].data # last.result))
    /\ []((last.op \in FetchOps /\ last.hit) =>
              /\ last.nPrimary = 0 /\ last.nSecondary = 0 /\ last.reqs = {}
              /\ LastKey \in DOMAIN fetched
              /\ last.result = fetched[LastKey].data
              /\ fetched[LastKey].from \in {"none", "quote"}
              /\ last.hitAge < cacheExpiry)
    /\ [][/\ \A key \in DOMAIN apiCache' :
                 Written(key) =>
                     /\ last'.op \in FetchOps /\ ~last'.hit
                     /\ key = LastKey'
                     /\ apiCache'[key] = [data |-> last'.result, timestamp |-> now]
                     /\ \/ /\ last'.secondary = "none"
                           /\ ~last'.primaryFailed /\ last'.nSecondary = 0
                        \/ /\ last'.secondary = "quote"
                           /\ last'.primaryFailed /\ last'.nSecondary = 1
          /\ (TotalFailure /\ LastKey \notin DOMAIN apiCache /\ ncalls' = ncalls + 1
                  /\ last'.op \in FetchOps /\ last'.hit) =>
                 LastKey' # LastKey]_vars

\* a list of the secondary provider is served from the cache at the end of the
\* window
C26_Witness ==
    /\ last.op = "fetchTopCoins"
    /\ last.hit
    /\ fetched[LastKey].from = "quote"
    /\ last.hitAge >= 299000

C28_DeadlineMonotone ==
    [][isRateLimited(now, rateLimitedUntil) => rateLimitedUntil' >= rateLimitedUntil]_vars


(***************************************************************************)
(* C23: the stored list of recent transactions holds at most 10 entries,   *)
(* the transactions created last with the newest first: entry i carries    *)
(* the id and the date of the i-th newest created message.  A transaction- *)
(* updated message leaves the length alone and changes nothing but the     *)
(* status, and that only in an entry with the id the message names.        *)
(***************************************************************************)
Listed == getTransactionsFromStorage(localStorage)
NewestFirst ==
    /\ Len(Listed) <= 10
    /\ Len(Listed) = (IF Len(created) < 10 THEN Len(created) ELSE 10)
    /\ \A i \in 1..Len(Listed) :
           /\ StrictEq(Prop(Listed[i], "id"), created[Len(created) - i + 1].id)
           /\ StrictEq(Prop(Listed[i], "date"), created[Len(created) - i + 1].date)
UpdateTouchesStatusOnly ==
    (ncalls' # ncalls /\ last'.op = "handleTransactionUpdated") =>
        /\ Len(Listed') = Len(Listed)
        /\ \A i \in 1..Len(Listed) :
               /\ \A f \in {"id", "type", "crypto", "amount", "date"} :
                      StrictEq(Prop(Listed'[i], f), Prop(Listed[i], f))
               /\ ~StrictEq(Prop(Listed'[i], "status"), Prop(Listed[i], "status")) =>
                      /\ StrictEq(Prop(Listed[i], "id"), last'.a.id)
                      /\ StrictEq(Prop(Listed'[i], "status"), last'.a.status)
C23_RecentTransactions == []NewestFirst /\ [][UpdateTouchesStatusOnly]_vars
\* the list is full, an older entry fell out, and an update has just set the
\* status of an entry that is still listed
C23_Witness ==
    /\ Len(created) > 10
    /\ Len(Listed) = 10
    /\ last.op = "handleTransactionUpdated"
    /\ \E i \in 1..Len(Listed) :
           /\ StrictEq(Prop(Listed[i], "id"), last.a.id)
           /\ StrictEq(Prop(Listed[i], "status"), Str("completed"))

(***************************************************************************)
(* C29: once no loadCoinData request is in flight, and the request that    *)
(* settled last was answered with data, the widget shows the coin and the  *)
(* currency selected now, whatever the order of the answers; and the       *)
(* loading overlay is hidden only when no load is in flight.  Each answer  *)
(* is rendered as it arrives (lines 489-491) and hides the overlay, so the *)
(* answer to an older request overwrites that of the newest one.           *)
(***************************************************************************)
C29_ShowsCurrentCoin ==
    container.t = "element" =>
        /\ (loads = EmptyBag /\ last.op = "loadCoinData" /\ last.ok) =>
               /\ container.shown.coin = compactCryptoWidget.currentCoin
               /\ container.shown.currency = compactCryptoWidget.currentCurrency
        /\ ~container.loading => loads = EmptyBag

(***************************************************************************)
(* C30: at most one auto-refresh timer is live at any time; right after    *)
(* updateRefreshInterval('manual') and right after destroy none is, and    *)
(* right after updateRefreshInterval(n) exactly one is, with period n, the *)
(* one this.activeInterval names.                                          *)
(***************************************************************************)
C30_OneTimer ==
    /\ Cardinality(timers.live) <= 1
    /\ last.op = "destroy" => timers.live = {}
    /\ last.op = "updateRefreshInterval" =>
           IF last.a.interval = "manual"
           THEN timers.live = {}
           ELSE /\ last.a.interval = "1000" =>
                       timers.live = {[id |-> compactCryptoWidget.activeInterval,
                                       period |-> 1000]}
                /\ last.a.interval = "300000" =>
                       timers.live = {[id |-> compactCryptoWidget.activeInterval,
                                       period |-> 300000]}
\* the interval was changed while a timer ran: the old timer is gone, the new
\* one has the period asked for
C30_Witness ==
    /\ last.op = "updateRefreshInterval"
    /\ last.a.interval = "300000"
    /\ timers.issued >= 2
    /\ \E t \in timers.live : t.period = 300000

==============================================================================
